---- MODULE Spec2Model ----
(***************************************************************************)
(* Release-notes engine of drivio: reference resolution, ancestry walk,     *)
(* conventional-commit classification, statistics and type filtering.       *)
(* Strings are TLA+ strings handled character by character (Len, SubSeq,    *)
(* \o), so prefixes, substrings, trimming and case folding are computed.    *)
(***************************************************************************)
EXTENDS Integers, Sequences, FiniteSets, TLC

VARIABLES pc,            \* position of the modelled run
          message,       \* classifier: raw commit message handed to the parser
          parsed,        \* classifier: tuple returned by parseConventionalCommit
          repo,          \* repository: commit graph, messages, reference store
          from,          \* walker: lower endpoint hash
          to,            \* walker: upper endpoint hash
          walked,        \* walker: value returned by getCommitsBetween
          ref,           \* resolver: reference string
          resolved,      \* resolver: value returned by resolveReference
          fromRef,       \* pipeline: --from
          toRef,         \* pipeline: --to
          includeTypes,  \* pipeline: --include
          excludeTypes,  \* pipeline: --exclude
          notes,         \* pipeline: *ReleaseNotes returned / handed to the formatter
          err,           \* pipeline: error returned
          apiNotes,      \* GitHub-API variant: *ReleaseNotes returned
          outputFormat,  \* run: --format
          remoteURL,     \* run: --remote-url
          effects,       \* run: file-system and network operations made, in order
          formatted,     \* formatter: (string, error) returned by Format
          decoded,       \* reader: value a JSON decoder returns for the rendered text
          clean,         \* clean command: --force, the line on stdin, the work directory
          program,       \* progress UI: the tea.Program, its inbox and its ProgressBar model
          threads,       \* progress UI and spinner: position of every goroutine
          doneCh,        \* progress UI and spinner: the buffered channel `done` of the worker
          shared         \* progress UI and spinner: captured variables and the value returned

vars == <<pc, message, parsed, repo, from, to, walked, ref, resolved,
          fromRef, toRef, includeTypes, excludeTypes, notes, err, apiNotes,
          outputFormat, remoteURL, effects, formatted, decoded, clean, program, threads, doneCh, shared>>

Idle == "idle"

\* the variables of the pipeline and those of the other commands
runVars == <<pc, message, parsed, repo, from, to, walked, ref, resolved,
             fromRef, toRef, includeTypes, excludeTypes, notes, err, apiNotes,
             outputFormat, remoteURL, effects, formatted, decoded>>

uiVars == <<program, threads, doneCh, shared>>

(***************************************************************************)
(* Bounds                                                                   *)
(***************************************************************************)
MaxCommits == 4      \* commits in an enumerated commit graph
MaxChain == 2        \* commits in an enumerated linear history
HashLen == 4         \* bytes in an object id (scaled down from 20)

(***************************************************************************)
(* strings / unicode helpers                                                *)
(***************************************************************************)
Ch(s, i) == SubSeq(s, i, i)

UpperLetters == "ABCDEFGHIJKLMNOPQRSTUVWXYZ"
LowerLetters == "abcdefghijklmnopqrstuvwxyz"
Digits == "0123456789"

CharsOf(s) == {Ch(s, i) : i \in 1..Len(s)}

\* index of the first occurrence of character c at or after position i, 0 if none
IndexFrom(s, c, i) ==
    IF \E j \in i..Len(s) : Ch(s, j) = c
    THEN CHOOSE j \in i..Len(s) : Ch(s, j) = c /\ \A k \in i..(j - 1) : Ch(s, k) # c
    ELSE 0

IndexOf(s, c) == IndexFrom(s, c, 1)

\* unicode.IsSpace restricted to the characters of the model's alphabet
SpaceChars == {" ", "\t", "\n", "\r", "\f"}
IsSpaceChar(c) == c \in SpaceChars

\* regexp class \w
WordChars == CharsOf(UpperLetters) \cup CharsOf(LowerLetters) \cup CharsOf(Digits) \cup {"_"}
IsWordChar(c) == c \in WordChars

\* regexp class \s
ReSpaceChars == {" ", "\t", "\n", "\f", "\r"}
IsReSpace(c) == c \in ReSpaceChars

LowerOf == [c \in CharsOf(UpperLetters) |-> Ch(LowerLetters, IndexOf(UpperLetters, c))]

ToLowerChar(c) == IF c \in DOMAIN LowerOf THEN LowerOf[c] ELSE c

\* the characters i..j of s in lower case, the two halves one after the other
RECURSIVE ToLowerFrom(_, _, _)
ToLowerFrom(s, i, j) ==
    IF i > j THEN ""
    ELSE IF i = j THEN ToLowerChar(Ch(s, i))
    ELSE ToLowerFrom(s, i, (i + j) \div 2) \o ToLowerFrom(s, (i + j) \div 2 + 1, j)

ToLower(s) == ToLowerFrom(s, 1, Len(s))

\* first position at or after i holding a non-space character (Len(s) + 1 if none)
FirstNonSpace(s, i) ==
    IF \E j \in i..Len(s) : ~IsSpaceChar(Ch(s, j))
    THEN CHOOSE j \in i..Len(s) : ~IsSpaceChar(Ch(s, j)) /\ \A k \in i..(j - 1) : IsSpaceChar(Ch(s, k))
    ELSE IF i > Len(s) THEN i ELSE Len(s) + 1

\* last position at or before i holding a non-space character (0 if none)
LastNonSpace(s, i) ==
    IF \E j \in 1..i : ~IsSpaceChar(Ch(s, j))
    THEN CHOOSE j \in 1..i : ~IsSpaceChar(Ch(s, j)) /\ \A k \in (j + 1)..i : IsSpaceChar(Ch(s, k))
    ELSE IF i < 1 THEN i ELSE 0

TrimLeft(s) == SubSeq(s, FirstNonSpace(s, 1), Len(s))

TrimRight(s) == SubSeq(s, 1, LastNonSpace(s, Len(s)))

TrimSpace(s) == TrimRight(TrimLeft(s))

HasPrefix(s, p) == Len(s) >= Len(p) /\ SubSeq(s, 1, Len(p)) = p

ContainsFrom(s, sub, i) ==
    \E j \in i..(Len(s) - Len(sub) + 1) : SubSeq(s, j, j + Len(sub) - 1) = sub

Contains(s, sub) == ContainsFrom(s, sub, 1)

\* the k-th smallest position of a set of positions
KthOf(ps, k) == CHOOSE p \in ps : Cardinality({q \in ps : q < p}) = k - 1

\* the pieces of s between the separators at the positions seps
SplitAt(s, seps) ==
    [k \in 1..Cardinality(seps) + 1 |->
        SubSeq(s, IF k = 1 THEN 1 ELSE KthOf(seps, k - 1) + 1,
                  IF k = Cardinality(seps) + 1 THEN Len(s) ELSE KthOf(seps, k) - 1)]

\* strings.Split(s, "\n"): always at least one element
SplitLines(s) == SplitAt(s, {i \in 1..Len(s) : Ch(s, i) = "\n"})

RECURSIVE Repeat(_, _)
Repeat(s, n) == IF n = 0 THEN "" ELSE s \o Repeat(s, n - 1)

\* the elements of a sequence
SeqRange(q) == {q[i] : i \in 1..Len(q)}

(***************************************************************************)
(* CommitType                                                               *)
(***************************************************************************)
CommitTypeFeature == "feat"
CommitTypeFix == "fix"
CommitTypeDocs == "docs"
CommitTypeStyle == "style"
CommitTypeRefactor == "refactor"
CommitTypeTest == "test"
CommitTypeChore == "chore"
CommitTypeBreaking == "breaking"
CommitTypeUnknown == "unknown"

(***************************************************************************)
(* parseConventionalCommit                                                  *)
(***************************************************************************)
NoMatch == <<>>

\* length of the longest prefix of h made of \w characters, counted from k
RECURSIVE WordRun(_, _)
WordRun(h, k) == IF k < Len(h) /\ IsWordChar(Ch(h, k + 1)) THEN WordRun(h, k + 1) ELSE k

WordPrefixLen(h) == WordRun(h, 0)

RECURSIVE FirstNonReSpace(_, _)
FirstNonReSpace(s, i) ==
    IF i <= Len(s) /\ IsReSpace(Ch(s, i)) THEN FirstNonReSpace(s, i + 1) ELSE i

SkipReSpace(s) == SubSeq(s, FirstNonReSpace(s, 1), Len(s))

\* ReSubject without the `\s*` between the colon and the subject
ReSubjectKeepsSpace(rest) ==
    IF ~HasPrefix(rest, ":") \/ Len(rest) < 2 THEN NoMatch
    ELSE <<SubSeq(rest, 2, Len(rest))>>

\* `:\s*(.+)$` applied to the text that starts at the colon
ReSubject(rest) ==
    IF ~HasPrefix(rest, ":") THEN NoMatch
    ELSE LET after == SubSeq(rest, 2, Len(rest))
             stripped == SkipReSpace(after)
         IN  IF after = "" THEN NoMatch
             ELSE IF stripped = "" THEN <<Ch(after, Len(after))>>
             ELSE <<stripped>>

\* regexp `^(\w+)(?:\(([^)]+)\))?:\s*(.+)$`; result <<whole, type, scope, subject>> or NoMatch
FindStringSubmatch(header) ==
    LET k == WordPrefixLen(header)
        rest == SubSeq(header, k + 1, Len(header))
        close == IndexOf(rest, ")")
    IN  IF k = 0 THEN NoMatch
        ELSE IF HasPrefix(rest, "(")
             THEN IF close < 3 THEN NoMatch
                  ELSE LET subj == ReSubject(SubSeq(rest, close + 1, Len(rest)))
                       IN  IF subj = NoMatch THEN NoMatch
                           ELSE <<header, SubSeq(header, 1, k), SubSeq(rest, 2, close - 1), subj[1]>>
             ELSE LET subj == ReSubject(rest)
                  IN  IF subj = NoMatch THEN NoMatch
                      ELSE <<header, SubSeq(header, 1, k), "", subj[1]>>

\* strings.Builder append with "\n" between the lines already written
WriteLine(builder, line) == IF Len(builder) > 0 THEN builder \o "\n" \o line ELSE line

\* FooterStarts without the test of the previous line
FooterStartsAtAnyColon(lines, k) == Contains(TrimSpace(lines[k]), ":")

\* does line k (1-based; Go index i = k - 1) open the footer?
FooterStarts(lines, k) ==
    /\ Contains(TrimSpace(lines[k]), ":")
    /\ k - 1 > 1
    /\ TrimSpace(lines[k - 1]) = ""

\* the loop `for i := 1; i < len(lines); i++`, from 1-based line k on
RECURSIVE BodyFooter(_, _, _, _, _)
BodyFooter(lines, k, body, footer, inFooter) ==
    IF k > Len(lines) THEN [body |-> body, footer |-> footer]
    ELSE LET line == TrimSpace(lines[k])
             inF == inFooter \/ FooterStarts(lines, k)
         IN  IF line = "" THEN BodyFooter(lines, k + 1, body, footer, inFooter)
             ELSE IF inF THEN BodyFooter(lines, k + 1, body, WriteLine(footer, line), inF)
             ELSE BodyFooter(lines, k + 1, WriteLine(body, line), footer, inF)

\* "Check for breaking changes" in the header
HeaderBreaking(header) == Contains(ToLower(header), "breaking change")

\* TextBreaking that looks at the footer only
TextBreakingFooterOnly(body, footer) == Contains(ToLower(footer), "breaking change")

\* "Check for breaking changes in body or footer"
TextBreaking(body, footer) ==
    \/ Contains(ToLower(body), "breaking change")
    \/ Contains(ToLower(footer), "breaking change")

\* headerType without the lower-casing of the keyword
headerTypeKeepsCase(header, keyword) ==
    IF HeaderBreaking(header) THEN CommitTypeBreaking ELSE keyword

\* the type after the header check: forced to Breaking by a header marker
headerType(header, keyword) ==
    IF HeaderBreaking(header) THEN CommitTypeBreaking ELSE ToLower(keyword)

\* finalType that sets the flag's type only in the header check
finalTypeKeepsKeyword(commitType, body, footer) == commitType

\* the type after the body/footer check
finalType(commitType, body, footer) ==
    IF TextBreaking(body, footer) THEN CommitTypeBreaking ELSE commitType

\* the return after the body/footer loop
parsedRecord(header, matches, bf) ==
    [Type |-> finalType(headerType(header, matches[2]), bf.body, bf.footer),
     Scope |-> matches[3], Subject |-> matches[4],
     Body |-> bf.body, Footer |-> bf.footer,
     Breaking |-> HeaderBreaking(header) \/ TextBreaking(bf.body, bf.footer)]

\* parseMatched that still collects body and footer under a non-matching header
parseMatchedKeepsText(lines, header, matches) ==
    IF Len(matches) < 4
    THEN [Type |-> CommitTypeUnknown, Scope |-> "", Subject |-> header,
          Body |-> BodyFooter(lines, 2, "", "", FALSE).body,
          Footer |-> BodyFooter(lines, 2, "", "", FALSE).footer, Breaking |-> FALSE]
    ELSE parsedRecord(header, matches, BodyFooter(lines, 2, "", "", FALSE))

\* the early return for a header the regexp does not match, else the rest
parseMatched(lines, header, matches) ==
    IF Len(matches) < 4
    THEN [Type |-> CommitTypeUnknown, Scope |-> "", Subject |-> header,
          Body |-> "", Footer |-> "", Breaking |-> FALSE]
    ELSE parsedRecord(header, matches, BodyFooter(lines, 2, "", "", FALSE))

parseHeader(lines, header) == parseMatched(lines, header, FindStringSubmatch(header))

parseConventionalCommit(msg) == parseHeader(SplitLines(msg), TrimSpace(SplitLines(msg)[1]))

(***************************************************************************)
(* Object ids (plumbing.Hash), printed as lower-case hex of HashLen bytes   *)
(***************************************************************************)
Nil == "nil"

HexDigits == "0123456789abcdefABCDEF"
HexChars == CharsOf(HexDigits)

ZeroHash == Repeat("0", 2 * HashLen)

\* id of the i-th commit of a modelled repository
CommitHash(i) == Repeat(Ch("123456789", i), 2 * HashLen)

\* an id that names no object of any modelled repository
MissingHash == Repeat("e", 2 * HashLen)

\* hex.DecodeString: the bytes decoded before the first malformed pair
RECURSIVE DecodeString(_)
DecodeString(s) ==
    IF Len(s) >= 2 /\ Ch(s, 1) \in HexChars /\ Ch(s, 2) \in HexChars
    THEN ToLower(SubSeq(s, 1, 2)) \o DecodeString(SubSeq(s, 3, Len(s)))
    ELSE ""

\* plumbing.NewHash: decoded bytes copied into a zeroed [HashLen]byte
NewHash(s) ==
    LET b == DecodeString(s)
        t == IF Len(b) > 2 * HashLen THEN SubSeq(b, 1, 2 * HashLen) ELSE b
    IN  t \o Repeat("0", 2 * HashLen - Len(t))

(***************************************************************************)
(* Reference store (go-git Repository.Reference / Repository.Tag)           *)
(***************************************************************************)
HashRef(h) == [type |-> "hash", hash |-> h, target |-> ""]
SymRef(t) == [type |-> "symbolic", hash |-> ZeroHash, target |-> t]

MaxResolveRecursion == 1024

RECURSIVE ResolveSymbolic(_, _, _)
ResolveSymbolic(store, r, recursion) ==
    IF r.type # "symbolic" THEN [err |-> Nil, hash |-> r.hash]
    ELSE IF recursion > MaxResolveRecursion THEN [err |-> "max. recursion level reached", hash |-> ZeroHash]
    ELSE IF r.target \notin DOMAIN store THEN [err |-> "reference not found", hash |-> ZeroHash]
    ELSE ResolveSymbolic(store, store[r.target], recursion + 1)

\* a.repo.Reference(plumbing.ReferenceName(name), true) followed by .Hash()
Reference(store, name) ==
    IF name \notin DOMAIN store THEN [err |-> "reference not found", hash |-> ZeroHash]
    ELSE ResolveSymbolic(store, store[name], 0)

\* path.Join("refs", "tags", name) for names without "." / ".." / doubled "/"
TagRefName(name) == IF name = "" THEN "refs/tags" ELSE "refs/tags/" \o name

\* a.repo.Tag(name) followed by .Hash(); the tag reference is not resolved
Tag(store, name) ==
    IF TagRefName(name) \notin DOMAIN store THEN [err |-> "tag not found", hash |-> ZeroHash]
    ELSE [err |-> Nil, hash |-> store[TagRefName(name)].hash]

(***************************************************************************)
(* resolveReference                                                         *)
(***************************************************************************)
MinHashPrefix == 7

\* resolveAsHash without the length guard
resolveAsHashAnyLength(s, tried) ==
    IF NewHash(s) # ZeroHash
    THEN [hash |-> NewHash(s), err |-> Nil, consulted |-> Append(tried, "hash")]
    ELSE [hash |-> ZeroHash, err |-> "could not resolve reference: " \o s,
          consulted |-> Append(tried, "hash")]

\* "Try to resolve as a commit hash"; reached after both lookups failed
resolveAsHash(s, tried) ==
    IF Len(s) >= MinHashPrefix
    THEN IF NewHash(s) # ZeroHash
         THEN [hash |-> NewHash(s), err |-> Nil, consulted |-> Append(tried, "hash")]
         ELSE [hash |-> ZeroHash, err |-> "could not resolve reference: " \o s,
               consulted |-> Append(tried, "hash")]
    ELSE [hash |-> ZeroHash, err |-> "could not resolve reference: " \o s, consulted |-> tried]

\* resolveReference with the tag lookup made before the reference lookup
resolveReferenceTagFirst(r, s) ==
    LET reference == Reference(r.refs, s)
        tag == Tag(r.refs, s)
    IN  IF tag.err = Nil
        THEN [hash |-> tag.hash, err |-> Nil, consulted |-> <<"tag">>]
        ELSE IF reference.err = Nil
             THEN [hash |-> reference.hash, err |-> Nil, consulted |-> <<"tag", "reference">>]
             ELSE resolveAsHash(s, <<"tag", "reference">>)

\* result: the hash, the error, and the lookups that were made, in order
resolveReference(r, s) ==
    LET reference == Reference(r.refs, s)
        tag == Tag(r.refs, s)
    IN  IF reference.err = Nil
        THEN [hash |-> reference.hash, err |-> Nil, consulted |-> <<"reference">>]
        ELSE IF tag.err = Nil
             THEN [hash |-> tag.hash, err |-> Nil, consulted |-> <<"reference", "tag">>]
             ELSE resolveAsHash(s, <<"reference", "tag">>)

(***************************************************************************)
(* Commit graph and go-git's default Log order (pre-order iterator)         *)
(***************************************************************************)
\* commit index of an id, 0 when the object store has no such commit
CommitOf(r, h) ==
    IF \E i \in 1..Len(r.parents) : CommitHash(i) = h
    THEN CHOOSE i \in 1..Len(r.parents) : CommitHash(i) = h
    ELSE 0

\* object.filteredParentIter: the parents not seen when the commit is visited
filteredParentIter(parents, c, seen) == SelectSeq(parents[c], LAMBDA h : h \notin seen)

\* commitPreIterator.Next; it = [start, stack, seen]; start = 0 once consumed
RECURSIVE IterNext(_, _)
IterNext(parents, it) ==
    LET current == Len(it.stack)
        visit(c, rest) ==
            IF c \in rest.seen THEN IterNext(parents, rest)
            ELSE LET seen2 == rest.seen \cup {c}
                 IN  [eof |-> FALSE, c |-> c,
                      it |-> [start |-> 0, seen |-> seen2,
                              stack |-> IF Len(parents[c]) > 0
                                        THEN Append(rest.stack, filteredParentIter(parents, c, seen2))
                                        ELSE rest.stack]]
    IN  IF it.start # 0 THEN visit(it.start, [it EXCEPT !.start = 0])
        ELSE IF current = 0 THEN [eof |-> TRUE, c |-> 0, it |-> it]
        ELSE IF it.stack[current] = <<>>
             THEN IterNext(parents, [it EXCEPT !.stack = SubSeq(it.stack, 1, current - 1)])
             ELSE visit(Head(it.stack[current]),
                        [it EXCEPT !.stack[current] = Tail(it.stack[current])])

\* the ForEach callback of getCommitsBetween: stop at `from`, else collect
RECURSIVE ForEach(_, _, _, _)
ForEach(parents, fromHash, it, acc) ==
    LET nx == IterNext(parents, it)
    IN  IF nx.eof THEN [commits |-> acc, err |-> Nil]
        ELSE IF CommitHash(nx.c) = fromHash THEN [commits |-> acc, err |-> "found from commit"]
        ELSE ForEach(parents, fromHash, nx.it, Append(acc, nx.c))

Reverse(s) == [i \in 1..Len(s) |-> s[Len(s) + 1 - i]]

\* result: the commits (indices, oldest first), the error, the warnings surfaced
getCommitsBetween(r, fromHash, toHash) ==
    IF CommitOf(r, toHash) = 0
    THEN [commits |-> <<>>, err |-> "object not found", warnings |-> {}]
    ELSE LET fe == ForEach(r.parents, fromHash,
                           [start |-> CommitOf(r, toHash), stack |-> <<>>, seen |-> {}], <<>>)
         IN  IF fe.err # Nil /\ fe.err # "found from commit"
             THEN [commits |-> <<>>, err |-> fe.err, warnings |-> {}]
             ELSE [commits |-> Reverse(fe.commits), err |-> Nil, warnings |-> {}]

(***************************************************************************)
(* analyzeCommit, statistics, GenerateReleaseNotes                          *)
(***************************************************************************)
\* a time.Time: wall clock as written in RFC 3339, zone offset, nanoseconds
TimeOf(text, zone, nsec) == [text |-> text, zone |-> zone, nsec |-> nsec]

\* the author signature of commit c; repositories without signatures get one
AuthorOf(r, c) ==
    IF "author" \in DOMAIN r THEN r.author[c]
    ELSE [Name |-> "Dev One", Email |-> "dev@example.com",
          When |-> TimeOf("2024-05-0" \o Ch("123456789", c) \o "T10:00:00", "+02:00", 0)]

commitInfoOf(hash, msg, p, author) ==
    [Hash |-> hash, Author |-> author.Name, Email |-> author.Email, Date |-> author.When,
     Message |-> msg,
     Type |-> p.Type, Scope |-> p.Scope, Subject |-> p.Subject,
     Body |-> p.Body, Footer |-> p.Footer, Breaking |-> p.Breaking]

analyzeCommit(r, c) ==
    commitInfoOf(CommitHash(c), r.msg[c], parseConventionalCommit(r.msg[c]), AuthorOf(r, c))

ZeroStatistics ==
    [Total |-> 0, Features |-> 0, Fixes |-> 0, Docs |-> 0, Style |-> 0,
     Refactor |-> 0, Test |-> 0, Chore |-> 0, Breaking |-> 0, Unknown |-> 0]

\* countCommit without the default arm of the switch
countCommitNoDefault(stats, type) ==
    LET t == [stats EXCEPT !.Total = @ + 1]
    IN  CASE type = CommitTypeFeature  -> [t EXCEPT !.Features = @ + 1]
          [] type = CommitTypeFix      -> [t EXCEPT !.Fixes = @ + 1]
          [] type = CommitTypeDocs     -> [t EXCEPT !.Docs = @ + 1]
          [] type = CommitTypeStyle    -> [t EXCEPT !.Style = @ + 1]
          [] type = CommitTypeRefactor -> [t EXCEPT !.Refactor = @ + 1]
          [] type = CommitTypeTest     -> [t EXCEPT !.Test = @ + 1]
          [] type = CommitTypeChore    -> [t EXCEPT !.Chore = @ + 1]
          [] type = CommitTypeBreaking -> [t EXCEPT !.Breaking = @ + 1]
          [] OTHER                     -> t

\* `stats.Total++` followed by the switch on the commit type
countCommit(stats, type) ==
    LET t == [stats EXCEPT !.Total = @ + 1]
    IN  CASE type = CommitTypeFeature  -> [t EXCEPT !.Features = @ + 1]
          [] type = CommitTypeFix      -> [t EXCEPT !.Fixes = @ + 1]
          [] type = CommitTypeDocs     -> [t EXCEPT !.Docs = @ + 1]
          [] type = CommitTypeStyle    -> [t EXCEPT !.Style = @ + 1]
          [] type = CommitTypeRefactor -> [t EXCEPT !.Refactor = @ + 1]
          [] type = CommitTypeTest     -> [t EXCEPT !.Test = @ + 1]
          [] type = CommitTypeChore    -> [t EXCEPT !.Chore = @ + 1]
          [] type = CommitTypeBreaking -> [t EXCEPT !.Breaking = @ + 1]
          [] OTHER                     -> [t EXCEPT !.Unknown = @ + 1]

\* merge filter that tests the parsed type keyword instead of the subject
isMergeCommitByType(commitInfo) == commitInfo.Type = "merge"

\* the merge filter of the analysis loop
isMergeCommit(commitInfo) == HasPrefix(commitInfo.Subject, "Merge pull request")

\* analyzeOne that counts a commit before the merge filter looks at it
analyzeOneCountsFirst(acc, commitInfo) ==
    IF isMergeCommit(commitInfo)
    THEN [Commits |-> acc.Commits, Statistics |-> countCommit(acc.Statistics, commitInfo.Type)]
    ELSE [Commits |-> Append(acc.Commits, commitInfo),
          Statistics |-> countCommit(acc.Statistics, commitInfo.Type)]

\* one iteration of the loop: skip a merge commit, else append and count
analyzeOne(acc, commitInfo) ==
    IF isMergeCommit(commitInfo) THEN acc
    ELSE [Commits |-> Append(acc.Commits, commitInfo),
          Statistics |-> countCommit(acc.Statistics, commitInfo.Type)]

\* the loop `for _, commit := range commits` of GenerateReleaseNotes
RECURSIVE analyzeAll(_, _, _, _)
analyzeAll(r, commits, k, acc) ==
    IF k > Len(commits) THEN acc
    ELSE analyzeAll(r, commits, k + 1, analyzeOne(acc, analyzeCommit(r, commits[k])))

NoNotes == "nil"

\* time.Now() of the run: an instant with a sub-second part
Now == TimeOf("2025-01-02T03:04:05", "Z", 123456789)

\* the returned *ReleaseNotes
releaseNotesOf(fRef, tRef, fromHash, toHash, range, done) ==
    [notes |-> [FromRef |-> fRef, ToRef |-> tRef, FromHash |-> fromHash, ToHash |-> toHash,
                GeneratedAt |-> Now,
                Commits |-> done.Commits, Statistics |-> done.Statistics],
     err |-> Nil, walked |-> range]

\* after both references resolved: walk, analyze, aggregate
generateRange(r, fRef, tRef, fromHash, toHash, range) ==
    IF range.err # Nil
    THEN [notes |-> NoNotes, err |-> "failed to get commits between references: " \o range.err,
          walked |-> range]
    ELSE releaseNotesOf(fRef, tRef, fromHash, toHash, range,
             analyzeAll(r, range.commits, 1, [Commits |-> <<>>, Statistics |-> ZeroStatistics]))

\* getCommitsBetween was not called
NotWalked == [commits |-> <<>>, err |-> "not called", warnings |-> {}]

\* generateResolved that walks with whatever the resolution of toRef returned
generateResolvedUncheckedTo(r, fRef, tRef, fromRes, toRes) ==
    IF fromRes.err # Nil
    THEN [notes |-> NoNotes,
          err |-> "failed to resolve from reference '" \o fRef \o "': " \o fromRes.err,
          walked |-> NotWalked]
    ELSE generateRange(r, fRef, tRef, fromRes.hash, toRes.hash,
                       getCommitsBetween(r, fromRes.hash, toRes.hash))

\* the two resolutions and their early returns, then the walk
generateResolved(r, fRef, tRef, fromRes, toRes) ==
    IF fromRes.err # Nil
    THEN [notes |-> NoNotes,
          err |-> "failed to resolve from reference '" \o fRef \o "': " \o fromRes.err,
          walked |-> NotWalked]
    ELSE IF toRes.err # Nil
    THEN [notes |-> NoNotes,
          err |-> "failed to resolve to reference '" \o tRef \o "': " \o toRes.err,
          walked |-> NotWalked]
    ELSE generateRange(r, fRef, tRef, fromRes.hash, toRes.hash,
                       getCommitsBetween(r, fromRes.hash, toRes.hash))

\* result: [notes, err]; notes = NoNotes when an error is returned
GenerateReleaseNotes(r, fRef, tRef) ==
    generateResolved(r, fRef, tRef, resolveReference(r, fRef), resolveReference(r, tRef))

(***************************************************************************)
(* filterCommits / calculateStatistics (runReleaseNotes)                    *)
(***************************************************************************)
InList(list, x) == \E i \in 1..Len(list) : list[i] = x

\* does the commit survive the include and the exclude list?
keepCommit(commit, include, exclude) ==
    /\ Len(include) > 0 => InList(include, commit.Type)
    /\ Len(exclude) > 0 => ~InList(exclude, commit.Type)

filterCommits(commits, include, exclude) ==
    IF Len(include) = 0 /\ Len(exclude) = 0 THEN commits
    ELSE SelectSeq(commits, LAMBDA commit : keepCommit(commit, include, exclude))

RECURSIVE calculateFrom(_, _, _)
calculateFrom(commits, k, stats) ==
    IF k > Len(commits) THEN stats
    ELSE calculateFrom(commits, k + 1, countCommit(stats, commits[k].Type))

calculateStatistics(commits) == calculateFrom(commits, 1, ZeroStatistics)

(***************************************************************************)
(* GenerateReleaseNotes, GitHub-API variant: commits come from the compare  *)
(* endpoint; the record keeps hash and full message only                    *)
(***************************************************************************)
isMergeMessage(msg) == HasPrefix(TrimSpace(SplitLines(msg)[1]), "Merge pull request")

RECURSIVE apiAnalyzeAll(_, _, _)
apiAnalyzeAll(apiCommits, k, analyzedCommits) ==
    IF k > Len(apiCommits) THEN analyzedCommits
    ELSE IF isMergeMessage(apiCommits[k].Message)
         THEN apiAnalyzeAll(apiCommits, k + 1, analyzedCommits)
         ELSE apiAnalyzeAll(apiCommits, k + 1,
                  Append(analyzedCommits,
                         [Hash |-> apiCommits[k].Sha, Message |-> apiCommits[k].Message,
                          Subject |-> TrimSpace(apiCommits[k].Message)]))

apiNotesOf(fRef, tRef, analyzedCommits) ==
    [FromRef |-> fRef, ToRef |-> tRef, FromHash |-> "", ToHash |-> "",
     Commits |-> analyzedCommits, Statistics |-> [Total |-> Len(analyzedCommits)]]

GenerateReleaseNotesAPI(apiCommits, fRef, tRef) ==
    apiNotesOf(fRef, tRef, apiAnalyzeAll(apiCommits, 1, <<>>))

(***************************************************************************)
(* Formatter: time layouts, markdown template, text listing                 *)
(* (the emoji of the markdown headings are left out of the heading text)    *)
(***************************************************************************)
\* t.Format("2006-01-02 15:04:05")
FormatDateTime(t) == SubSeq(t.text, 1, 10) \o " " \o SubSeq(t.text, 12, 19)

\* t.Format("2006-01-02")
FormatDate(t) == SubSeq(t.text, 1, 10)

\* t.Format(time.RFC3339): seconds precision, zone offset
FormatRFC3339(t) == t.text \o t.zone

UpperOf == [c \in CharsOf(LowerLetters) |-> Ch(UpperLetters, IndexOf(LowerLetters, c))]

\* the characters i..j of s in upper case, the two halves one after the other
RECURSIVE ToUpperFrom(_, _, _)
ToUpperFrom(s, i, j) ==
    IF i > j THEN ""
    ELSE IF i = j THEN (IF Ch(s, i) \in DOMAIN UpperOf THEN UpperOf[Ch(s, i)] ELSE Ch(s, i))
    ELSE ToUpperFrom(s, i, (i + j) \div 2) \o ToUpperFrom(s, (i + j) \div 2 + 1, j)

ToUpper(s) == ToUpperFrom(s, 1, Len(s))

\* the template text up to the first section
mdHeader(n) ==
    "# Release Notes\n\n**From:** " \o n.FromRef \o " (" \o n.FromHash \o ")\n**To:** "
        \o n.ToRef \o " (" \o n.ToHash \o ")\n**Generated:** " \o FormatDateTime(n.GeneratedAt)
        \o "\n\n## Summary\n\n- **Total Commits:** " \o ToString(n.Statistics.Total)
        \o "\n- **Features:** " \o ToString(n.Statistics.Features)
        \o "\n- **Bug Fixes:** " \o ToString(n.Statistics.Fixes)
        \o "\n- **Documentation:** " \o ToString(n.Statistics.Docs)
        \o "\n- **Refactoring:** " \o ToString(n.Statistics.Refactor)
        \o "\n- **Tests:** " \o ToString(n.Statistics.Test)
        \o "\n- **Chores:** " \o ToString(n.Statistics.Chore)
        \o "\n- **Breaking Changes:** " \o ToString(n.Statistics.Breaking)
        \o "\n- **Other:** " \o ToString(n.Statistics.Unknown) \o "\n\n"

\* `{{if .Body}} ... {{end}}` under a section entry
mdBody(commit) == IF commit.Body # "" THEN "\n  " \o commit.Body \o "\n  " ELSE ""

\* one pass of `{{range .Commits}}{{if eq .Type type}} ... {{end}}{{end}}`
mdEntry(commit, type) ==
    "\n" \o (IF commit.Type = type
             THEN "\n- **" \o commit.Subject \o "** (" \o commit.Hash \o ")\n  "
                      \o mdBody(commit) \o "\n"
             ELSE "") \o "\n"

RECURSIVE mdEntries(_, _, _)
mdEntries(commits, k, type) ==
    IF k > Len(commits) THEN ""
    ELSE mdEntry(commits[k], type) \o mdEntries(commits, k + 1, type)

\* `{{if gt count 0}}` heading and entries `{{end}}`, and the newline after it
mdSection(n, count, heading, type) ==
    (IF count > 0
     THEN "\n## " \o heading \o "\n\n" \o mdEntries(n.Commits, 1, type) \o "\n\n"
     ELSE "") \o "\n"

\* one line of the list under "## All Commits"
mdFlatLine(commit) ==
    "\n- **" \o commit.Type \o ":** " \o commit.Subject \o " (" \o commit.Hash \o ") - "
        \o commit.Author \o " - " \o FormatDate(commit.Date) \o "\n"

RECURSIVE mdFlat(_, _)
mdFlat(commits, k) ==
    IF k > Len(commits) THEN "" ELSE mdFlatLine(commits[k]) \o mdFlat(commits, k + 1)

\* the executed markdown template
formatMarkdown(n) ==
    [text |-> mdHeader(n)
                \o mdSection(n, n.Statistics.Breaking, "Breaking Changes", CommitTypeBreaking)
                \o mdSection(n, n.Statistics.Features, "Features", CommitTypeFeature)
                \o mdSection(n, n.Statistics.Fixes, "Bug Fixes", CommitTypeFix)
                \o mdSection(n, n.Statistics.Docs, "Documentation", CommitTypeDocs)
                \o mdSection(n, n.Statistics.Refactor, "Refactoring", CommitTypeRefactor)
                \o mdSection(n, n.Statistics.Test, "Tests", CommitTypeTest)
                \o mdSection(n, n.Statistics.Chore, "Chores", CommitTypeChore)
                \o mdSection(n, n.Statistics.Unknown, "Other Changes", CommitTypeUnknown)
                \o "## All Commits\n\n" \o mdFlat(n.Commits, 1) \o "\n",
     err |-> Nil]

\* the head of the text listing: title, references, summary
txtHeader(n) ==
    "Release Notes\n=============\n\nFrom: " \o n.FromRef \o " (" \o n.FromHash \o ")\nTo: "
        \o n.ToRef \o " (" \o n.ToHash \o ")\nGenerated: " \o FormatDateTime(n.GeneratedAt)
        \o "\n\nSummary:\n- Total Commits: " \o ToString(n.Statistics.Total)
        \o "\n- Features: " \o ToString(n.Statistics.Features)
        \o "\n- Bug Fixes: " \o ToString(n.Statistics.Fixes)
        \o "\n- Documentation: " \o ToString(n.Statistics.Docs)
        \o "\n- Refactoring: " \o ToString(n.Statistics.Refactor)
        \o "\n- Tests: " \o ToString(n.Statistics.Test)
        \o "\n- Chores: " \o ToString(n.Statistics.Chore)
        \o "\n- Breaking Changes: " \o ToString(n.Statistics.Breaking)
        \o "\n- Other: " \o ToString(n.Statistics.Unknown) \o "\n\n"

\* commitsByType[type]: the commits of one type, in the order of the document
commitsOfType(commits, type) == SelectSeq(commits, LAMBDA commit : commit.Type = type)

typeOrder ==
    <<CommitTypeBreaking, CommitTypeFeature, CommitTypeFix, CommitTypeDocs,
      CommitTypeRefactor, CommitTypeTest, CommitTypeChore, CommitTypeUnknown>>

txtLine(commit) ==
    "- " \o commit.Subject \o " (" \o commit.Hash \o ") - " \o commit.Author \o "\n"
        \o (IF commit.Body # "" THEN "  " \o commit.Body \o "\n" ELSE "")

RECURSIVE txtLines(_, _)
txtLines(commits, k) ==
    IF k > Len(commits) THEN "" ELSE txtLine(commits[k]) \o txtLines(commits, k + 1)

\* the body of the loop over typeOrder for one type
txtGroup(commits, type) ==
    IF Len(commits) > 0 THEN ToUpper(type) \o ":\n" \o txtLines(commits, 1) \o "\n" ELSE ""

\* the loop `for _, commitType := range order`, from position k on
RECURSIVE txtGroups(_, _, _)
txtGroups(n, order, k) ==
    IF k > Len(order) THEN ""
    ELSE txtGroup(commitsOfType(n.Commits, order[k]), order[k]) \o txtGroups(n, order, k + 1)

formatText(n) == [text |-> txtHeader(n) \o txtGroups(n, typeOrder, 1), err |-> Nil]

\* strings.ReplaceAll(s, old, new) for a one-character old, on the characters
\* i..j of s, the two halves one after the other
RECURSIVE ReplaceAllFrom(_, _, _, _, _)
ReplaceAllFrom(s, old, new, i, j) ==
    IF i > j THEN ""
    ELSE IF i = j THEN (IF Ch(s, i) = old THEN new ELSE Ch(s, i))
    ELSE ReplaceAllFrom(s, old, new, i, (i + j) \div 2) \o ReplaceAllFrom(s, old, new, (i + j) \div 2 + 1, j)

ReplaceAll(s, old, new) == ReplaceAllFrom(s, old, new, 1, Len(s))

\* the first Sprintf of formatJSON: %s prints the string as it is, %d the number
jsonHead(n) ==
    "{\n  \"from_ref\": \"" \o n.FromRef \o "\",\n  \"to_ref\": \"" \o n.ToRef
        \o "\",\n  \"from_hash\": \"" \o n.FromHash \o "\",\n  \"to_hash\": \"" \o n.ToHash
        \o "\",\n  \"generated_at\": \"" \o FormatRFC3339(n.GeneratedAt)
        \o "\",\n  \"statistics\": {\n    \"total\": " \o ToString(n.Statistics.Total)
        \o ",\n    \"features\": " \o ToString(n.Statistics.Features)
        \o ",\n    \"fixes\": " \o ToString(n.Statistics.Fixes)
        \o ",\n    \"docs\": " \o ToString(n.Statistics.Docs)
        \o ",\n    \"style\": " \o ToString(n.Statistics.Style)
        \o ",\n    \"refactor\": " \o ToString(n.Statistics.Refactor)
        \o ",\n    \"test\": " \o ToString(n.Statistics.Test)
        \o ",\n    \"chore\": " \o ToString(n.Statistics.Chore)
        \o ",\n    \"breaking\": " \o ToString(n.Statistics.Breaking)
        \o ",\n    \"unknown\": " \o ToString(n.Statistics.Unknown)
        \o "\n  },\n  \"commits\": ["

\* the Sprintf of the loop: only body and footer have their quotes replaced
jsonCommit(commit) ==
    "\n    {\n      \"hash\": \"" \o commit.Hash \o "\",\n      \"author\": \"" \o commit.Author
        \o "\",\n      \"email\": \"" \o commit.Email
        \o "\",\n      \"date\": \"" \o FormatRFC3339(commit.Date)
        \o "\",\n      \"type\": \"" \o commit.Type \o "\",\n      \"scope\": \"" \o commit.Scope
        \o "\",\n      \"subject\": \"" \o commit.Subject
        \o "\",\n      \"body\": \"" \o ReplaceAll(commit.Body, "\"", "\\\"")
        \o "\",\n      \"breaking\": " \o (IF commit.Breaking THEN "true" ELSE "false")
        \o ",\n      \"footer\": \"" \o ReplaceAll(commit.Footer, "\"", "\\\"") \o "\"\n    }"

RECURSIVE jsonCommits(_, _)
jsonCommits(commits, k) ==
    IF k > Len(commits) THEN ""
    ELSE (IF k > 1 THEN "," ELSE "") \o jsonCommit(commits[k]) \o jsonCommits(commits, k + 1)

formatJSON(n) == [text |-> jsonHead(n) \o jsonCommits(n.Commits, 1) \o "\n  ]\n}", err |-> Nil]

(***************************************************************************)
(* Classifier inputs                                                        *)
(***************************************************************************)
Headers ==
    { "feat(auth): add OAuth support", "fix: patch leak", "ci: update pipeline",
      "Feat: upper", "FIX(core): caps", "breaking: drop v1",
      "feat: BREAKING CHANGE in api", "Breaking Change ahead", "update readme",
      "Merge pull request #12 from owner/branch", "feat: Merge pull request handling",
      "  fix: indented  ", "feat:", "feat():x", "feat (x): y", "feat!: bang",
      "fix(a:b): colon scope", "docs: d", "style: s", "refactor: r", "test: t",
      "chore:\tc", "release: breaking changes", "", "wip_1:x", "  plain note ", "BREAKING: drop v2",
      "Merge pull request(s): tidy" }

Tails ==
    { "", "\n\nbody text", "\n\nBREAKING CHANGE: clients must update",
      "\n\nbody\n\nRefs: #1\nmore", "\nbody: with colon",
      "\n\nthis is a Breaking Change\n  \nSigned-off-by: me", "\r\n\r\nKey: v",
      "\n\nno colon here\n\nstill body", "\n\nbody\nNote: x\n \t\nFixes: #2\n\nlast" }

Messages == {h \o t : h \in Headers, t \in Tails}

InitParse ==
    /\ pc = "parse"
    /\ message \in Messages
    /\ parsed = Idle
    /\ repo = Idle /\ from = Idle /\ to = Idle /\ walked = Idle
    /\ ref = Idle /\ resolved = Idle
    /\ fromRef = Idle /\ toRef = Idle /\ includeTypes = Idle /\ excludeTypes = Idle
    /\ notes = Idle /\ err = Idle /\ apiNotes = Idle
    /\ outputFormat = Idle /\ remoteURL = Idle /\ effects = Idle /\ formatted = Idle /\ decoded = Idle
    /\ clean = Idle /\ program = Idle /\ threads = Idle /\ doneCh = Idle /\ shared = Idle

\* analyzeCommit's call of the parser on one message
Classify ==
    /\ pc = "parse"
    /\ parsed' = parseConventionalCommit(message)
    /\ pc' = "parsed"
    /\ UNCHANGED <<message, repo, from, to, walked, ref, resolved,
                   fromRef, toRef, includeTypes, excludeTypes, notes, err, apiNotes,
                   outputFormat, remoteURL, effects,
                   formatted, decoded, clean, uiVars>>

NextParse == Classify

SpecParse == InitParse /\ [][NextParse]_vars

(***************************************************************************)
(* Walker inputs: every commit graph of at most MaxCommits commits whose    *)
(* commits have at most two (ordered, distinct) parents among the older ones*)
(***************************************************************************)
ParentLists(k) ==
    {<<>>} \cup {<<a>> : a \in 1..k}
           \cup {<<pr[1], pr[2]>> : pr \in {q \in (1..k) \X (1..k) : q[1] # q[2]}}

RECURSIVE Graphs(_)
Graphs(n) ==
    IF n = 0 THEN {<<>>}
    ELSE {Append(g, ps) : g \in Graphs(n - 1), ps \in ParentLists(n - 1)}

DefaultMessage(i) == "feat: change " \o Ch("123456789", i)

GraphRepo(g) ==
    [parents |-> g, msg |-> [i \in 1..Len(g) |-> DefaultMessage(i)], refs |-> <<>>]

Hashes(n) == {CommitHash(i) : i \in 1..n} \cup {MissingHash}

InitWalk ==
    /\ pc = "walk"
    /\ \E n \in 1..MaxCommits : \E g \in Graphs(n) :
          /\ repo = GraphRepo(g)
          /\ from \in Hashes(n)
          /\ to \in Hashes(n)
    /\ walked = Idle
    /\ message = Idle /\ parsed = Idle
    /\ ref = Idle /\ resolved = Idle
    /\ fromRef = Idle /\ toRef = Idle /\ includeTypes = Idle /\ excludeTypes = Idle
    /\ notes = Idle /\ err = Idle /\ apiNotes = Idle
    /\ outputFormat = Idle /\ remoteURL = Idle /\ effects = Idle /\ formatted = Idle /\ decoded = Idle
    /\ clean = Idle /\ program = Idle /\ threads = Idle /\ doneCh = Idle /\ shared = Idle

\* one call of getCommitsBetween
Walk ==
    /\ pc = "walk"
    /\ walked' = getCommitsBetween(repo, from, to)
    /\ pc' = "walked"
    /\ UNCHANGED <<message, parsed, repo, from, to, ref, resolved,
                   fromRef, toRef, includeTypes, excludeTypes, notes, err, apiNotes,
                   outputFormat, remoteURL, effects,
                   formatted, decoded, clean, uiVars>>

NextWalk == Walk

SpecWalk == InitWalk /\ [][NextWalk]_vars

(***************************************************************************)
(* Resolver inputs: reference stores over a few names, reference strings    *)
(***************************************************************************)
\* a two-commit history
TwoCommits == <<<<>>, <<1>>>>

StoreNames ==
    { "HEAD", "refs/heads/main", "refs/tags/v1", "refs/tags/HEAD",
      "refs/tags/" \o CommitHash(1) }

Targets(name) ==
    {HashRef(CommitHash(1)), HashRef(CommitHash(2))}
        \cup (IF name = "HEAD" THEN {SymRef("refs/heads/main")} ELSE {})

Stores ==
    UNION { {st \in [D -> UNION {Targets(nm) : nm \in D}] : \A nm \in D : st[nm] \in Targets(nm)}
            : D \in SUBSET StoreNames }

RefStrings ==
    { "HEAD", "refs/heads/main", "main", "v1", "refs/tags/v1", "",
      CommitHash(1), CommitHash(2), SubSeq(CommitHash(2), 1, 7), SubSeq(CommitHash(2), 1, 6),
      "abc", "zzzzzzzz", "0000000", "2Bzz2222", MissingHash }

InitResolve ==
    /\ pc = "resolve"
    /\ \E st \in Stores :
          repo = [parents |-> TwoCommits, msg |-> [i \in 1..2 |-> DefaultMessage(i)], refs |-> st]
    /\ ref \in RefStrings
    /\ resolved = Idle
    /\ message = Idle /\ parsed = Idle
    /\ from = Idle /\ to = Idle /\ walked = Idle
    /\ fromRef = Idle /\ toRef = Idle /\ includeTypes = Idle /\ excludeTypes = Idle
    /\ notes = Idle /\ err = Idle /\ apiNotes = Idle
    /\ outputFormat = Idle /\ remoteURL = Idle /\ effects = Idle /\ formatted = Idle /\ decoded = Idle
    /\ clean = Idle /\ program = Idle /\ threads = Idle /\ doneCh = Idle /\ shared = Idle

\* one call of resolveReference
Resolve ==
    /\ pc = "resolve"
    /\ resolved' = resolveReference(repo, ref)
    /\ pc' = "resolved"
    /\ UNCHANGED <<message, parsed, repo, from, to, walked, ref,
                   fromRef, toRef, includeTypes, excludeTypes, notes, err, apiNotes,
                   outputFormat, remoteURL, effects,
                   formatted, decoded, clean, uiVars>>

NextResolve == Resolve

SpecResolve == InitResolve /\ [][NextResolve]_vars

(***************************************************************************)
(* Run inputs: linear histories whose commits carry messages of the corpus  *)
(***************************************************************************)
RunMessages ==
    { "feat(auth): add OAuth support", "fix: patch leak\n\nBREAKING CHANGE: clients must update",
      "ci: update pipeline", "update readme", "Merge pull request #12 from owner/branch",
      "feat: Merge pull request handling", "docs: d", "style: s", "refactor: r",
      "test: t", "chore: c", "breaking: drop v1", " Merge pull request #7 from a/b\n\nfix: x",
      "Merge pull request(s): tidy" }

Chain(n) == [i \in 1..n |-> IF i = 1 THEN <<>> ELSE <<i - 1>>]

\* tags v0 and v1 on the first and the last commit, HEAD on the branch tip
ChainStore(n) ==
    [nm \in {"HEAD", "refs/heads/main", "refs/tags/v0", "refs/tags/v1"} |->
        CASE nm = "HEAD" -> SymRef("refs/heads/main")
          [] nm = "refs/tags/v0" -> HashRef(CommitHash(1))
          [] OTHER -> HashRef(CommitHash(n))]

RefPairs == { <<"v0", "HEAD">>, <<MissingHash, "v1">>, <<"nope", "v1">>, <<"v0", "main">> }

TypeFilters ==
    { <<<<>>, <<>>>>, <<<<"feat", "fix", "unknown">>, <<>>>>,
      <<<<>>, <<"chore", "docs">>>>, <<<<"feat", "ci", "breaking">>, <<"feat">>>> }

InitRun(repos) ==
    /\ pc = "start"
    /\ repo \in repos
    /\ \E rp \in RefPairs : fromRef = rp[1] /\ toRef = rp[2]
    /\ \E tf \in TypeFilters : includeTypes = tf[1] /\ excludeTypes = tf[2]
    /\ notes = Idle /\ err = Idle /\ apiNotes = Idle
    /\ outputFormat = Idle /\ remoteURL = Idle /\ effects = Idle /\ formatted = Idle /\ decoded = Idle
    /\ clean = Idle /\ program = Idle /\ threads = Idle /\ doneCh = Idle /\ shared = Idle
    /\ message = Idle /\ parsed = Idle
    /\ from = Idle /\ to = Idle /\ walked = Idle
    /\ ref = Idle /\ resolved = Idle

ChainRepos ==
    UNION { {[parents |-> Chain(n), msg |-> m, refs |-> ChainStore(n)] : m \in [1..n -> RunMessages]}
            : n \in 1..MaxChain }

Init == InitRun(ChainRepos)

\* runReleaseNotes: analyzer.GenerateReleaseNotes(fromRef, toRef) and its error check
generated(g) ==
    /\ notes' = g.notes
    /\ err' = IF g.err = Nil THEN Nil ELSE "failed to generate release notes: " \o g.err
    /\ pc' = IF g.err = Nil THEN "generated" ELSE "failed"
    /\ walked' = g.walked
    /\ effects' = IF g.err # Nil /\ remoteURL \notin {Idle, ""}
                  THEN Append(effects, "RemoveAll cloneDir") ELSE effects

Generate ==
    /\ pc = "start"
    /\ generated(GenerateReleaseNotes(repo, fromRef, toRef))
    /\ UNCHANGED <<message, parsed, repo, from, to, ref, resolved,
                   fromRef, toRef, includeTypes, excludeTypes, apiNotes,
                   outputFormat, remoteURL,
                   formatted, decoded, clean, uiVars>>

\* refiltered that keeps the statistics of the unfiltered range
refilteredStale(n, filtered) == [n EXCEPT !.Commits = filtered]

\* notes.Commits = filterCommits(...); notes.Statistics = calculateStatistics(notes.Commits)
refiltered(n, filtered) == [n EXCEPT !.Commits = filtered, !.Statistics = calculateStatistics(filtered)]

\* runReleaseNotes: filter by type and recompute the statistics
FilterAndRecompute ==
    /\ pc = "generated"
    /\ notes' = IF Len(includeTypes) > 0 \/ Len(excludeTypes) > 0
                THEN refiltered(notes, filterCommits(notes.Commits, includeTypes, excludeTypes))
                ELSE notes
    /\ pc' = "filtered"
    /\ UNCHANGED <<message, parsed, repo, from, to, walked, ref, resolved,
                   fromRef, toRef, includeTypes, excludeTypes, err, apiNotes,
                   outputFormat, remoteURL, effects,
                   formatted, decoded, clean, uiVars>>

\* the compare endpoint answers with the commits of the history, oldest first
CompareCommits(r) == [i \in 1..Len(r.parents) |-> [Sha |-> CommitHash(i), Message |-> r.msg[i]]]

\* a run of the GitHub-API variant of GenerateReleaseNotes
GenerateAPI ==
    /\ pc = "start"
    /\ apiNotes' = GenerateReleaseNotesAPI(CompareCommits(repo), fromRef, toRef)
    /\ pc' = "api-generated"
    /\ UNCHANGED <<message, parsed, repo, from, to, walked, ref, resolved,
                   fromRef, toRef, includeTypes, excludeTypes, notes, err,
                   outputFormat, remoteURL, effects,
                   formatted, decoded, clean, uiVars>>

Next == Generate \/ FilterAndRecompute \/ GenerateAPI

Spec == Init /\ [][Next]_vars

(***************************************************************************)
(* Run inputs: every commit graph, merge messages on two-parent commits     *)
(***************************************************************************)
GraphMessage(g, i, mergeText) ==
    IF Len(g[i]) = 2 /\ mergeText THEN "Merge pull request #12 from owner/branch"
    ELSE DefaultMessage(i)

\* tag v<i> on every commit i
GraphStore(n) ==
    [nm \in {"refs/tags/v" \o Ch("123456789", i) : i \in 1..n} |->
        HashRef(CommitHash(CHOOSE i \in 1..n : nm = "refs/tags/v" \o Ch("123456789", i)))]

GraphRepos ==
    UNION { {[parents |-> g, msg |-> [i \in 1..n |-> GraphMessage(g, i, mt)], refs |-> GraphStore(n)]
                : g \in Graphs(n), mt \in BOOLEAN}
            : n \in 1..MaxCommits }

InitHistory ==
    /\ pc = "start"
    /\ repo \in GraphRepos
    /\ fromRef \in {"v" \o Ch("123456789", i) : i \in 1..Len(repo.parents)} \cup {"nope"}
    /\ toRef = "v" \o Ch("123456789", Len(repo.parents))
    /\ \E tf \in {<<<<>>, <<>>>>, <<<<"feat">>, <<>>>>} : includeTypes = tf[1] /\ excludeTypes = tf[2]
    /\ notes = Idle /\ err = Idle /\ apiNotes = Idle
    /\ outputFormat = Idle /\ remoteURL = Idle /\ effects = Idle /\ formatted = Idle /\ decoded = Idle
    /\ clean = Idle /\ program = Idle /\ threads = Idle /\ doneCh = Idle /\ shared = Idle
    /\ message = Idle /\ parsed = Idle
    /\ from = Idle /\ to = Idle /\ walked = Idle
    /\ ref = Idle /\ resolved = Idle

SpecHistory == InitHistory /\ [][Next]_vars

(***************************************************************************)
(* runReleaseNotes before the analysis: work directory, clone, checks       *)
(***************************************************************************)
FormatMarkdown == "markdown"
FormatJSON == "json"
FormatText == "text"

\* the `switch format` of runReleaseNotes: does it take the default arm?
unsupportedFormat(format) == format \notin {FormatMarkdown, FormatJSON, FormatText}

\* a deferred function that removes nothing
cleanupNothing(url) == <<>>

\* the deferred cleanup(), registered only on the remote path after the clone
cleanup(url) == IF url # "" THEN <<"RemoveAll cloneDir">> ELSE <<>>

\* the .git check, then the format check, each returning through the defer
checkRepoAndFormat(url, isGit, format, done) ==
    IF ~isGit
    THEN [err |-> "not a git repository: repoDir", effects |-> done \o cleanup(url)]
    ELSE IF unsupportedFormat(format)
    THEN [err |-> "unsupported output format: " \o format
                      \o ". Supported formats: markdown, json, text",
          effects |-> done \o cleanup(url)]
    ELSE [err |-> Nil, effects |-> done]

\* the `if remoteURL != ""` branch: clone directory, clone, failure path
cloneRemote(url, format, cloneDirOK, cloneOK, isGit) ==
    IF ~cloneDirOK
    THEN [err |-> "failed to create clone directory: mkdir", effects |-> <<"MkdirAll workDir">>]
    ELSE IF ~cloneOK
    THEN [err |-> "failed to clone remote repository: clone",
          effects |-> <<"MkdirAll workDir", "MkdirAll cloneDir", "CloneWithProgress",
                        "RemoveAll cloneDir">>]
    ELSE checkRepoAndFormat(url, isGit, format,
                            <<"MkdirAll workDir", "MkdirAll cloneDir", "CloneWithProgress">>)

\* runReleaseNotes from its first statement to the format switch
prepareRepoDir(url, format, workDirOK, cloneDirOK, cloneOK, isGit) ==
    IF ~workDirOK
    THEN [err |-> "failed to create work directory: mkdir", effects |-> <<>>]
    ELSE IF url # ""
    THEN cloneRemote(url, format, cloneDirOK, cloneOK, isGit)
    ELSE checkRepoAndFormat(url, isGit, format, <<"MkdirAll workDir">>)

OutputFormats == {"markdown", "json", "text", "yaml", "JSON", ""}

RemoteURLs == {"", "https://example.com/owner/repo.git"}

RunRepos ==
    UNION { {[parents |-> Chain(n), msg |-> m, refs |-> ChainStore(n)]
                : m \in [1..n -> {"feat: a", "update readme"}]}
            : n \in 1..MaxChain }

InitEntry ==
    /\ pc = "entry"
    /\ repo \in RunRepos
    /\ \E rp \in RefPairs : fromRef = rp[1] /\ toRef = rp[2]
    /\ \E tf \in TypeFilters : includeTypes = tf[1] /\ excludeTypes = tf[2]
    /\ outputFormat \in OutputFormats
    /\ remoteURL \in RemoteURLs
    /\ effects = <<>> /\ formatted = Idle /\ decoded = Idle
    /\ clean = Idle /\ program = Idle /\ threads = Idle /\ doneCh = Idle /\ shared = Idle
    /\ notes = Idle /\ err = Idle /\ apiNotes = Idle
    /\ message = Idle /\ parsed = Idle
    /\ from = Idle /\ to = Idle /\ walked = Idle
    /\ ref = Idle /\ resolved = Idle

prepared(p) ==
    /\ effects' = p.effects
    /\ err' = IF p.err = Nil THEN err ELSE p.err
    /\ pc' = IF p.err = Nil THEN "start" ELSE "failed"

\* runReleaseNotes up to (not including) git.NewAnalyzer; the outcomes of the
\* two MkdirAll, of the clone and of the .git check are the environment's
Prepare ==
    /\ pc = "entry"
    /\ \E workDirOK \in BOOLEAN, cloneDirOK \in BOOLEAN, cloneOK \in BOOLEAN, isGit \in BOOLEAN :
          prepared(prepareRepoDir(remoteURL, outputFormat, workDirOK, cloneDirOK, cloneOK, isGit))
    /\ UNCHANGED <<message, parsed, repo, from, to, walked, ref, resolved,
                   fromRef, toRef, includeTypes, excludeTypes, notes, apiNotes,
                   outputFormat, remoteURL,
                   formatted, decoded, clean, uiVars>>


(***************************************************************************)
(* A decoder of JSON texts, applied by the reader of a json rendering       *)
(***************************************************************************)
JsonFail == [ok |-> FALSE, val |-> "", next |-> 0]

JsonWs == {" ", "\n", "\t", "\r"}

\* the characters that end the plain run of a string literal
JsonSpecial == {"\"", "\\", "\n", "\t", "\r"}

\* the first position from i on whose character is not in (is in) a set, or
\* the position past the end
FirstOutside(s, i, set) ==
    IF \E j \in i..Len(s) : Ch(s, j) \notin set
    THEN CHOOSE j \in i..Len(s) : Ch(s, j) \notin set /\ \A k \in i..(j - 1) : Ch(s, k) \in set
    ELSE Len(s) + 1

FirstInside(s, i, set) ==
    IF \E j \in i..Len(s) : Ch(s, j) \in set
    THEN CHOOSE j \in i..Len(s) : Ch(s, j) \in set /\ \A k \in i..(j - 1) : Ch(s, k) \notin set
    ELSE Len(s) + 1

SkipWs(s, i) == IF i > Len(s) THEN i ELSE FirstOutside(s, i, JsonWs)

\* the character an escape sequence stands for
JsonEscapes ==
    [c \in {"\"", "\\", "/", "n", "t", "r"} |->
        CASE c = "n" -> "\n" [] c = "t" -> "\t" [] c = "r" -> "\r" [] OTHER -> c]

\* the rest of a string literal, after its opening quote; control characters
\* must be escaped and a backslash must start a known escape
RECURSIVE ScanString(_, _, _), ScanSpecial(_, _, _)
ScanString(s, i, acc) == ScanSpecial(s, FirstInside(s, i, JsonSpecial), acc \o SubSeq(s, i, FirstInside(s, i, JsonSpecial) - 1))

\* at the first quote, backslash or control character of the literal
ScanSpecial(s, i, acc) ==
    CASE i <= Len(s) /\ Ch(s, i) = "\"" -> [ok |-> TRUE, val |-> acc, next |-> i + 1]
      [] i + 1 <= Len(s) /\ Ch(s, i) = "\\" /\ Ch(s, i + 1) \in DOMAIN JsonEscapes ->
             ScanString(s, i + 2, acc \o JsonEscapes[Ch(s, i + 1)])
      [] OTHER -> JsonFail

RECURSIVE ScanNumber(_, _, _)
ScanNumber(s, i, acc) ==
    IF i <= Len(s) /\ Ch(s, i) \in CharsOf(Digits)
    THEN ScanNumber(s, i + 1, acc * 10 + IndexOf(Digits, Ch(s, i)) - 1)
    ELSE [ok |-> TRUE, val |-> acc, next |-> i]

WordAt(s, i, word) == i + Len(word) - 1 <= Len(s) /\ SubSeq(s, i, i + Len(word) - 1) = word

RECURSIVE ParseValue(_, _), ParseValueAt(_, _), ParseMembers(_, _, _), ParseMember(_, _),
          MemberKey(_, _), MemberValue(_, _, _), ParseElements(_, _, _)

\* a value: string, number, true, false, object (its members as <<key, value>>
\* pairs in order) or array (its elements in order)
ParseValue(s, i) == ParseValueAt(s, SkipWs(s, i))

ParseValueAt(s, i) ==
    CASE WordAt(s, i, "\"") -> ScanString(s, i + 1, "")
      [] i <= Len(s) /\ Ch(s, i) \in CharsOf(Digits) -> ScanNumber(s, i, 0)
      [] WordAt(s, i, "true") -> [ok |-> TRUE, val |-> TRUE, next |-> i + 4]
      [] WordAt(s, i, "false") -> [ok |-> TRUE, val |-> FALSE, next |-> i + 5]
      [] WordAt(s, i, "{") /\ WordAt(s, SkipWs(s, i + 1), "}") ->
             [ok |-> TRUE, val |-> <<>>, next |-> SkipWs(s, i + 1) + 1]
      [] WordAt(s, i, "{") /\ ~WordAt(s, SkipWs(s, i + 1), "}") ->
             ParseMembers(s, ParseMember(s, SkipWs(s, i + 1)), <<>>)
      [] WordAt(s, i, "[") /\ WordAt(s, SkipWs(s, i + 1), "]") ->
             [ok |-> TRUE, val |-> <<>>, next |-> SkipWs(s, i + 1) + 1]
      [] WordAt(s, i, "[") /\ ~WordAt(s, SkipWs(s, i + 1), "]") ->
             ParseElements(s, ParseValue(s, i + 1), <<>>)
      [] OTHER -> JsonFail

\* the object whose members are those of acc, the member m and the ones that
\* follow it
ParseMembers(s, m, acc) ==
    CASE m.ok /\ WordAt(s, m.next, ",") ->
             ParseMembers(s, ParseMember(s, SkipWs(s, m.next + 1)), Append(acc, m.val))
      [] m.ok /\ WordAt(s, m.next, "}") -> [ok |-> TRUE, val |-> Append(acc, m.val), next |-> m.next + 1]
      [] OTHER -> JsonFail

\* one member "key": value, as <<key, value>>, and the position of the first
\* character after it that is not white space
ParseMember(s, i) == IF WordAt(s, i, "\"") THEN MemberKey(s, ScanString(s, i + 1, "")) ELSE JsonFail

MemberKey(s, k) ==
    IF k.ok /\ WordAt(s, SkipWs(s, k.next), ":")
    THEN MemberValue(s, k.val, ParseValue(s, SkipWs(s, k.next) + 1))
    ELSE JsonFail

MemberValue(s, key, v) ==
    IF v.ok THEN [ok |-> TRUE, val |-> <<key, v.val>>, next |-> SkipWs(s, v.next)] ELSE JsonFail

\* the array whose elements are those of acc, the value v and the ones that
\* follow it
ParseElements(s, v, acc) ==
    CASE v.ok /\ WordAt(s, SkipWs(s, v.next), ",") ->
             ParseElements(s, ParseValue(s, SkipWs(s, v.next) + 1), Append(acc, v.val))
      [] v.ok /\ WordAt(s, SkipWs(s, v.next), "]") ->
             [ok |-> TRUE, val |-> Append(acc, v.val), next |-> SkipWs(s, v.next) + 1]
      [] OTHER -> JsonFail

\* one JSON value and nothing but white space after it
Rest(s, v) == IF v.ok /\ SkipWs(s, v.next) > Len(s) THEN v ELSE JsonFail

Unmarshal(s) == Rest(s, ParseValue(s, 1))

(***************************************************************************)
(* Formatter.Format on the documents of a run                               *)
(***************************************************************************)
\* the switch of Format with its default arm
Format(format, n) ==
    CASE format = FormatMarkdown -> formatMarkdown(n)
      [] format = FormatJSON -> formatJSON(n)
      [] format = FormatText -> formatText(n)
      [] OTHER -> [text |-> "", err |-> "unsupported format: " \o format]

\* runReleaseNotes: formatter.Format(notes) and its error check
formatDone(f) ==
    /\ formatted' = f
    /\ pc' = IF f.err = Nil THEN "formatted" ELSE "failed"
    /\ err' = IF f.err = Nil THEN err ELSE "failed to format release notes: " \o f.err
    /\ effects' = IF f.err # Nil /\ remoteURL \notin {Idle, ""}
                  THEN Append(effects, "RemoveAll cloneDir") ELSE effects

FormatNotes ==
    /\ pc = "filtered"
    /\ formatDone(Format(outputFormat, notes))
    /\ UNCHANGED <<message, parsed, repo, from, to, walked, ref, resolved,
                   fromRef, toRef, includeTypes, excludeTypes, notes, apiNotes,
                   outputFormat, remoteURL, decoded, clean, uiVars>>

\* messages whose text fields carry quotes, backslashes and line breaks,
\* and headers of every section of the renderings
FormatMessages ==
    { "feat(api): add \"x\" flag\n\nsay \"hi\"\nsecond line", "fix: patch\n\npath C:\\tmp",
      "ci: update pipeline", "style: s", "update readme", "docs: d",
      "chore: c\n\nBREAKING CHANGE: x", "refactor: r" }

FormatRepos ==
    UNION { {[parents |-> Chain(n), msg |-> m, refs |-> ChainStore(n)] : m \in [1..n -> FormatMessages]}
            : n \in 1..MaxChain }

FormatFilters == { <<<<>>, <<>>>>, <<<<>>, <<"chore", "docs">>>> }

InitFormat ==
    /\ pc = "start"
    /\ repo \in FormatRepos
    /\ fromRef = MissingHash /\ toRef = "v1"
    /\ \E tf \in FormatFilters : includeTypes = tf[1] /\ excludeTypes = tf[2]
    /\ outputFormat \in {"markdown", "json", "text", "yaml"}
    /\ notes = Idle /\ err = Idle /\ apiNotes = Idle
    /\ remoteURL = Idle /\ effects = Idle /\ formatted = Idle /\ decoded = Idle
    /\ clean = Idle /\ program = Idle /\ threads = Idle /\ doneCh = Idle /\ shared = Idle
    /\ message = Idle /\ parsed = Idle
    /\ from = Idle /\ to = Idle /\ walked = Idle
    /\ ref = Idle /\ resolved = Idle

\* the reader of a json rendering decodes the text
Decode ==
    /\ pc = "formatted" /\ outputFormat = FormatJSON
    /\ decoded' = Unmarshal(formatted.text)
    /\ pc' = "decoded"
    /\ UNCHANGED <<message, parsed, repo, from, to, walked, ref, resolved,
                   fromRef, toRef, includeTypes, excludeTypes, notes, err, apiNotes,
                   outputFormat, remoteURL, effects, formatted, clean, uiVars>>

NextFormat == Generate \/ FilterAndRecompute \/ FormatNotes \/ Decode

SpecFormat == InitFormat /\ [][NextFormat]_vars

(***************************************************************************)
(* runReleaseNotes after the analysis: format, write, return               *)
(***************************************************************************)
\* --output: not given, or a file outside the work directory
ReleaseOutputs == {"", "notes.md"}

\* runReleaseNotes from the write to the work directory to `return nil`; the
\* deferred cleanup runs at each return
writeFiles(url, output, workOK, outOK) ==
    IF ~workOK
    THEN [err |-> "failed to write file to work directory: write", effects |-> cleanup(url)]
    ELSE IF output # "" /\ ~outOK
    THEN [err |-> "failed to write output file: write",
          effects |-> <<"WriteFile workFilePath">> \o cleanup(url)]
    ELSE [err |-> Nil,
          effects |-> <<"WriteFile workFilePath">>
                          \o (IF output # "" THEN <<"WriteFile releaseOutput">> ELSE <<>>)
                          \o cleanup(url)]

written(w) ==
    /\ effects' = effects \o w.effects
    /\ err' = IF w.err = Nil THEN err ELSE w.err
    /\ pc' = IF w.err = Nil THEN "returned" ELSE "failed"

\* the outcomes of the two WriteFile are the environment's
WriteOutput ==
    /\ pc = "formatted" /\ effects # Idle
    /\ \E output \in ReleaseOutputs, workOK \in BOOLEAN, outOK \in BOOLEAN :
          written(writeFiles(remoteURL, output, workOK, outOK))
    /\ UNCHANGED <<message, parsed, repo, from, to, walked, ref, resolved,
                   fromRef, toRef, includeTypes, excludeTypes, notes, apiNotes,
                   outputFormat, remoteURL, formatted, decoded, clean, uiVars>>

\* git.NewAnalyzer(repoDir) fails to open the repository
NewAnalyzerFails ==
    /\ pc = "start" /\ effects # Idle
    /\ err' = "failed to create analyzer: open"
    /\ pc' = "failed"
    /\ effects' = effects \o cleanup(remoteURL)
    /\ UNCHANGED <<message, parsed, repo, from, to, walked, ref, resolved,
                   fromRef, toRef, includeTypes, excludeTypes, notes, apiNotes,
                   outputFormat, remoteURL, formatted, decoded, clean, uiVars>>

NextRun ==
    Prepare \/ NewAnalyzerFails \/ Generate \/ FilterAndRecompute \/ FormatNotes \/ WriteOutput

SpecRun == InitEntry /\ [][NextRun]_vars

(***************************************************************************)
(* The clean command                                                        *)
(***************************************************************************)
\* the operand fmt.Scanln stores: leading blanks skipped, then the characters
\* up to the next blank; what follows on the line only makes Scanln return an
\* error, which runClean does not look at
RECURSIVE ScanToken(_, _, _)
ScanToken(line, i, acc) ==
    IF i > Len(line) \/ IsSpaceChar(Ch(line, i)) THEN acc
    ELSE ScanToken(line, i + 1, acc \o Ch(line, i))

Scanln(line) == ScanToken(TrimLeft(line), 1, "")

\* the loop over the entries: RemoveAll is tried on each, a failure is a warning
RECURSIVE removeEntries(_, _, _)
removeEntries(entries, k, failing) ==
    IF k > Len(entries) THEN <<>>
    ELSE <<"RemoveAll " \o entries[k]>> \o removeEntries(entries, k + 1, failing)

confirmed(c) == c.force \/ Scanln(c.line) \in {"y", "Y"}

\* runClean; `failing` are the entries whose RemoveAll fails
runClean(c, failing) ==
    IF ~c.dir.exists
    THEN [err |-> Nil, effects |-> <<"Stat">>, entries |-> c.dir.entries]
    ELSE IF ~c.dir.readable
    THEN [err |-> "failed to read work directory: readdir", effects |-> <<"Stat", "ReadDir">>,
          entries |-> c.dir.entries]
    ELSE IF Len(c.dir.entries) = 0
    THEN [err |-> Nil, effects |-> <<"Stat", "ReadDir">>, entries |-> c.dir.entries]
    ELSE IF ~confirmed(c)
    THEN [err |-> Nil, effects |-> <<"Stat", "ReadDir", "Scanln">>, entries |-> c.dir.entries]
    ELSE [err |-> Nil,
          effects |-> <<"Stat", "ReadDir">> \o (IF c.force THEN <<>> ELSE <<"Scanln">>)
                          \o removeEntries(c.dir.entries, 1, failing),
          entries |-> SelectSeq(c.dir.entries, LAMBDA e : e \in failing)]

\* the work directory: missing, unreadable, empty, or holding entries (sorted by name)
WorkDirs ==
    { [exists |-> FALSE, readable |-> FALSE, entries |-> <<>>],
      [exists |-> TRUE, readable |-> FALSE, entries |-> <<"clone-1">>],
      [exists |-> TRUE, readable |-> TRUE, entries |-> <<>>],
      [exists |-> TRUE, readable |-> TRUE, entries |-> <<"clone-1">>],
      [exists |-> TRUE, readable |-> TRUE, entries |-> <<"clone-1", "release-notes.md">>] }

\* what the user types at the prompt, without the line end
AnswerLines == {"y", "Y", "n", "N", "", "yes", "y no", "Y es"}

InitClean ==
    /\ pc = "clean"
    /\ clean \in [force : BOOLEAN, line : AnswerLines, dir : WorkDirs]
    /\ effects = <<>> /\ err = Nil
    /\ repo = Idle /\ fromRef = Idle /\ toRef = Idle /\ includeTypes = Idle /\ excludeTypes = Idle
    /\ notes = Idle /\ apiNotes = Idle
    /\ outputFormat = Idle /\ remoteURL = Idle /\ formatted = Idle /\ decoded = Idle
    /\ message = Idle /\ parsed = Idle
    /\ from = Idle /\ to = Idle /\ walked = Idle
    /\ ref = Idle /\ resolved = Idle
    /\ program = Idle /\ threads = Idle /\ doneCh = Idle /\ shared = Idle

cleaned(r) ==
    /\ clean' = [clean EXCEPT !.dir.entries = r.entries]
    /\ effects' = r.effects
    /\ err' = r.err
    /\ pc' = "returned"

RunClean ==
    /\ pc = "clean"
    /\ \E failing \in SUBSET SeqRange(clean.dir.entries) : cleaned(runClean(clean, failing))
    /\ UNCHANGED <<message, parsed, repo, from, to, walked, ref, resolved,
                   fromRef, toRef, includeTypes, excludeTypes, notes, apiNotes,
                   outputFormat, remoteURL, formatted, decoded, uiVars>>

NextClean == RunClean

SpecClean == InitClean /\ [][NextClean]_vars

(***************************************************************************)
(* The progress UI: CloneWithProgress and FetchWithProgress                 *)
(* Progress values are percentages. Program.Send hands the message to the   *)
(* event loop while the program runs, blocks before it has started and is   *)
(* a no-op once it has finished. Ticks and window sizes are left out: they  *)
(* change neither the flow nor the value returned.                          *)
(***************************************************************************)
NewProgressBar == [progress |-> 0, completed |-> FALSE, error |-> Nil]

KeyMsg(key) == [type |-> "key", key |-> key, progress |-> 0, error |-> Nil]
ProgressMsg(percent) == [type |-> "progress", key |-> "", progress |-> percent, error |-> Nil]
CompleteMsg(error) == [type |-> "complete", key |-> "", progress |-> 0, error |-> error]

\* ProgressBar.Update: the new model and whether the command returned is tea.Quit
Update(p, msg) ==
    CASE msg.type = "key" -> [model |-> p, quit |-> msg.key \in {"q", "ctrl+c"}]
      [] msg.type = "progress" -> [model |-> [p EXCEPT !.progress = msg.progress], quit |-> FALSE]
      [] msg.type = "complete" ->
             [model |-> [p EXCEPT !.completed = TRUE, !.error = msg.error], quit |-> TRUE]
      [] OTHER -> [model |-> p, quit |-> FALSE]

\* the event loop takes one message
handled(prog, u) == [prog EXCEPT !.model = u.model, !.phase = IF u.quit THEN "quit" ELSE "running"]

\* program.Send(msg) once it does not block
Send(prog, msg) == IF prog.phase = "running" THEN handled(prog, Update(prog.model, msg)) ELSE prog

\* shared.outcome is what PlainClone or GetFile returned ("pending" before);
\* shared.keys counts the key presses

\* the messages sent before the worker starts and after it has succeeded
PreScript(kind) == IF kind = "clone" THEN <<0, 10, 15, 20, 25>> ELSE <<0, 20, 30, 40, 40>>
PostScript(kind) == IF kind = "clone" THEN <<90, 95, 100, 100>> ELSE <<90, 100>>

\* the simulated progress: start, step and ceiling of the loop
LoopStart(kind) == IF kind = "clone" THEN 20 ELSE 40
LoopStep(kind) == IF kind = "clone" THEN 10 ELSE 5
LoopCeiling(kind) == IF kind = "clone" THEN 85 ELSE 80

NoReturn == [content |-> "pending", err |-> "pending"]

WorkerFailure == "worker failed"

InitUI(kind) ==
    /\ pc = kind
    /\ program = [phase |-> "new", model |-> NewProgressBar]
    /\ threads = [main |-> "run", progress |-> [at |-> "pre", k |-> 1], worker |-> "unborn"]
    /\ doneCh = <<>>
    /\ shared = [progress |-> 0, outcome |-> "pending", result |-> Nil, fetchError |-> Nil,
                 ret |-> NoReturn, keys |-> 0]
    /\ clean = Idle /\ effects = Idle /\ err = Idle
    /\ repo = Idle /\ fromRef = Idle /\ toRef = Idle /\ includeTypes = Idle /\ excludeTypes = Idle
    /\ notes = Idle /\ apiNotes = Idle
    /\ outputFormat = Idle /\ remoteURL = Idle /\ formatted = Idle /\ decoded = Idle
    /\ message = Idle /\ parsed = Idle
    /\ from = Idle /\ to = Idle /\ walked = Idle
    /\ ref = Idle /\ resolved = Idle

\* program.Run starts the event loop, or fails to (no terminal)
StartProgram ==
    /\ program.phase = "new"
    /\ \E ok \in BOOLEAN : program' = [program EXCEPT !.phase = IF ok THEN "running" ELSE "failed"]
    /\ UNCHANGED <<runVars, clean, threads, doneCh, shared>>

MaxKeys == 2

\* the user presses a key
KeyPress ==
    /\ program.phase = "running" /\ shared.keys < MaxKeys
    /\ \E key \in {"q", "ctrl+c", "x"} : program' = Send(program, KeyMsg(key))
    /\ shared' = [shared EXCEPT !.keys = @ + 1]
    /\ UNCHANGED <<runVars, clean, threads, doneCh>>

\* progress goroutine: the next Send of the opening script
SendPre ==
    /\ threads.progress.at = "pre" /\ program.phase # "new"
    /\ program' = Send(program, ProgressMsg(PreScript(pc)[threads.progress.k]))
    /\ threads' = [threads EXCEPT !.progress =
                       IF threads.progress.k < Len(PreScript(pc))
                       THEN [at |-> "pre", k |-> threads.progress.k + 1]
                       ELSE [at |-> "spawn", k |-> 1]]
    /\ UNCHANGED <<runVars, clean, doneCh, shared>>

\* progress goroutine: make(chan error, 1) and `go func()` of the worker
Spawn ==
    /\ threads.progress.at = "spawn"
    /\ threads' = [threads EXCEPT !.progress = [at |-> "loop", k |-> 1], !.worker = "working"]
    /\ shared' = [shared EXCEPT !.progress = LoopStart(pc)]
    /\ UNCHANGED <<runVars, clean, program, doneCh>>

stepped(kind, progress) ==
    IF progress + LoopStep(kind) > LoopCeiling(kind) THEN LoopCeiling(kind)
    ELSE progress + LoopStep(kind)

\* progress goroutine: one turn of the loop that simulates progress, or its exit
Simulate ==
    /\ threads.progress.at = "loop"
    /\ IF shared.progress < LoopCeiling(pc)
       THEN /\ program.phase # "new"
            /\ shared' = [shared EXCEPT !.progress = stepped(pc, shared.progress)]
            /\ program' = Send(program, ProgressMsg(stepped(pc, shared.progress)))
            /\ UNCHANGED threads
       ELSE /\ threads' = [threads EXCEPT !.progress = [at |-> "wait", k |-> 1]]
            /\ UNCHANGED <<program, shared>>
    /\ UNCHANGED <<runVars, clean, doneCh>>

\* worker goroutine of the clone: PlainClone returns and its error is sent
CloneWorker ==
    /\ pc = "clone" /\ threads.worker = "working"
    /\ \E e \in {Nil, WorkerFailure} :
          doneCh' = Append(doneCh, e) /\ shared' = [shared EXCEPT !.outcome = e]
    /\ threads' = [threads EXCEPT !.worker = "end"]
    /\ UNCHANGED <<runVars, clean, program>>

\* worker goroutine of the fetch: GetFile returns; an error is sent at once,
\* content is first stored in `result`
FetchWorker ==
    /\ pc = "fetch" /\ threads.worker = "working"
    /\ \E e \in {Nil, WorkerFailure} :
          /\ shared' = [shared EXCEPT !.outcome = e]
          /\ IF e # Nil
             THEN doneCh' = Append(doneCh, e) /\ threads' = [threads EXCEPT !.worker = "end"]
             ELSE doneCh' = doneCh /\ threads' = [threads EXCEPT !.worker = "storing"]
    /\ UNCHANGED <<runVars, clean, program>>

\* worker goroutine of the fetch: `result = content` completes, then nil is sent
StoreResult ==
    /\ threads.worker = "storing"
    /\ shared' = [shared EXCEPT !.result = "content"]
    /\ doneCh' = Append(doneCh, Nil)
    /\ threads' = [threads EXCEPT !.worker = "end"]
    /\ UNCHANGED <<runVars, clean, program>>

\* progress goroutine: `err := <-done`; the fetch also stores it in fetchError
Receive ==
    /\ threads.progress.at = "wait" /\ Len(doneCh) > 0
    /\ doneCh' = Tail(doneCh)
    /\ threads' = [threads EXCEPT !.progress =
                       IF Head(doneCh) # Nil THEN [at |-> "fail", k |-> 1] ELSE [at |-> "post", k |-> 1]]
    /\ shared' = IF pc = "fetch" /\ Head(doneCh) # Nil
                 THEN [shared EXCEPT !.fetchError = Head(doneCh)] ELSE shared
    /\ UNCHANGED <<runVars, clean, program>>

\* progress goroutine: program.Send(ui.CompleteMsg{Error: err}) and return
SendFailure ==
    /\ threads.progress.at = "fail" /\ program.phase # "new"
    /\ program' = Send(program, CompleteMsg(WorkerFailure))
    /\ threads' = [threads EXCEPT !.progress = [at |-> "end", k |-> 1]]
    /\ UNCHANGED <<runVars, clean, doneCh, shared>>

\* progress goroutine: the next Send of the closing script
SendPost ==
    /\ threads.progress.at = "post" /\ program.phase # "new"
    /\ program' = Send(program, ProgressMsg(PostScript(pc)[threads.progress.k]))
    /\ threads' = [threads EXCEPT !.progress =
                       IF threads.progress.k < Len(PostScript(pc))
                       THEN [at |-> "post", k |-> threads.progress.k + 1]
                       ELSE [at |-> "complete", k |-> 1]]
    /\ UNCHANGED <<runVars, clean, doneCh, shared>>

\* progress goroutine: program.Send(ui.CompleteMsg{Error: nil})
SendComplete ==
    /\ threads.progress.at = "complete" /\ program.phase # "new"
    /\ program' = Send(program, CompleteMsg(Nil))
    /\ threads' = [threads EXCEPT !.progress = [at |-> "end", k |-> 1]]
    /\ UNCHANGED <<runVars, clean, doneCh, shared>>

\* the error of program.Run: nil after tea.Quit, the start-up error otherwise
RunError(prog) == IF prog.phase = "failed" THEN "could not start program" ELSE Nil

\* CloneWithProgress: return ui.RunProgressBar(program)
CloneReturn ==
    /\ pc = "clone" /\ threads.main = "run" /\ program.phase \in {"quit", "failed"}
    /\ shared' = [shared EXCEPT !.ret = [content |-> Nil, err |-> RunError(program)]]
    /\ threads' = [threads EXCEPT !.main = "returned"]
    /\ UNCHANGED <<runVars, clean, program, doneCh>>

\* FetchWithProgress: RunProgressBar returns and its error is checked
FetchRunReturns ==
    /\ pc = "fetch" /\ threads.main = "run" /\ program.phase \in {"quit", "failed"}
    /\ IF RunError(program) # Nil
       THEN /\ shared' = [shared EXCEPT !.ret = [content |-> Nil, err |-> RunError(program)]]
            /\ threads' = [threads EXCEPT !.main = "returned"]
       ELSE /\ threads' = [threads EXCEPT !.main = "check fetchError"]
            /\ UNCHANGED shared
    /\ UNCHANGED <<runVars, clean, program, doneCh>>

\* FetchWithProgress: `if fetchError != nil { return nil, fetchError }`
CheckFetchError ==
    /\ threads.main = "check fetchError"
    /\ IF shared.fetchError # Nil
       THEN /\ shared' = [shared EXCEPT !.ret = [content |-> Nil, err |-> shared.fetchError]]
            /\ threads' = [threads EXCEPT !.main = "returned"]
       ELSE /\ threads' = [threads EXCEPT !.main = "read result"]
            /\ UNCHANGED shared
    /\ UNCHANGED <<runVars, clean, program, doneCh>>

\* what an unsynchronized read of `result` can give while the worker stores it
ReadOfResult(worker, result) == IF worker = "storing" THEN {Nil, "content", "torn"} ELSE {result}

\* FetchWithProgress: `return result, nil`
ReturnResult ==
    /\ threads.main = "read result"
    /\ \E content \in ReadOfResult(threads.worker, shared.result) :
          shared' = [shared EXCEPT !.ret = [content |-> content, err |-> Nil]]
    /\ threads' = [threads EXCEPT !.main = "returned"]
    /\ UNCHANGED <<runVars, clean, program, doneCh>>

ProgressGoroutine == SendPre \/ Spawn \/ Simulate \/ Receive \/ SendFailure \/ SendPost \/ SendComplete

InitClone == InitUI("clone")

NextClone == StartProgram \/ KeyPress \/ ProgressGoroutine \/ CloneWorker \/ CloneReturn

SpecClone == InitClone /\ [][NextClone]_vars

InitFetch == InitUI("fetch")

NextFetch ==
    \/ StartProgram \/ KeyPress \/ ProgressGoroutine \/ FetchWorker \/ StoreResult
    \/ FetchRunReturns \/ CheckFetchError \/ ReturnResult

SpecFetch == InitFetch /\ [][NextFetch]_vars

(***************************************************************************)
(* RunSpinner                                                               *)
(***************************************************************************)
\* make(chan error, 1)
DoneCapacity == 1

\* len(SpinnerFrames)
SpinnerFrames == 10

\* the tasks handed to RunSpinner: some assign a captured variable before they return
Tasks ==
    { [name |-> "Validating connection...", captures |-> FALSE],
      [name |-> "Getting commits between references...", captures |-> TRUE],
      [name |-> "Fetching file...", captures |-> TRUE] }

TaskFailure == "task failed"

InitSpinner ==
    /\ pc = "spinner"
    /\ threads = [main |-> "start", task |-> "unborn"]
    /\ doneCh = <<>>
    /\ \E t \in Tasks :
          shared = [task |-> t, frame |-> 0, runs |-> 0, captured |-> "unset",
                    taskErr |-> "pending", ret |-> "pending"]
    /\ program = Idle /\ clean = Idle /\ effects = Idle /\ err = Idle
    /\ repo = Idle /\ fromRef = Idle /\ toRef = Idle /\ includeTypes = Idle /\ excludeTypes = Idle
    /\ notes = Idle /\ apiNotes = Idle
    /\ outputFormat = Idle /\ remoteURL = Idle /\ formatted = Idle /\ decoded = Idle
    /\ message = Idle /\ parsed = Idle
    /\ from = Idle /\ to = Idle /\ walked = Idle
    /\ ref = Idle /\ resolved = Idle

\* done := make(chan error, 1); go func() { done <- task() }(): the task is called
SpinnerStart ==
    /\ pc = "spinner" /\ threads.main = "start"
    /\ threads' = [main |-> "loop", task |-> "running"]
    /\ shared' = [shared EXCEPT !.runs = @ + 1]
    /\ UNCHANGED <<runVars, clean, program, doneCh>>

\* the task assigns its captured variable, in two steps
TaskAssign ==
    /\ threads.task = "running" /\ shared.task.captures /\ shared.captured # "complete"
    /\ shared' = [shared EXCEPT !.captured = IF @ = "unset" THEN "partial" ELSE "complete"]
    /\ UNCHANGED <<runVars, clean, program, threads, doneCh>>

\* task() returns its error
TaskReturn ==
    /\ threads.task = "running" /\ (shared.task.captures => shared.captured = "complete")
    /\ \E e \in {Nil, TaskFailure} : shared' = [shared EXCEPT !.taskErr = e]
    /\ threads' = [threads EXCEPT !.task = "send"]
    /\ UNCHANGED <<runVars, clean, program, doneCh>>

\* done <- err, which waits while the buffer is full
TaskSend ==
    /\ threads.task = "send" /\ Len(doneCh) < DoneCapacity
    /\ doneCh' = Append(doneCh, shared.taskErr)
    /\ threads' = [threads EXCEPT !.task = "end"]
    /\ UNCHANGED <<runVars, clean, program, shared>>

\* the default arm of the select: draw a frame and sleep
Spin ==
    /\ pc = "spinner" /\ threads.main = "loop" /\ Len(doneCh) = 0
    /\ shared' = [shared EXCEPT !.frame = (@ + 1) % SpinnerFrames]
    /\ UNCHANGED <<runVars, clean, program, threads, doneCh>>

\* RunSpinner with a nil result
spinnerReturnsNil(e) == Nil

\* what RunSpinner returns for the value received from done
spinnerReturns(e) == IF e # Nil THEN e ELSE Nil

\* the arm `case err := <-done` of the select
SpinnerReceive ==
    /\ pc = "spinner" /\ threads.main = "loop" /\ Len(doneCh) > 0
    /\ shared' = [shared EXCEPT !.ret = spinnerReturns(Head(doneCh))]
    /\ doneCh' = Tail(doneCh)
    /\ threads' = [threads EXCEPT !.main = "returned"]
    /\ UNCHANGED <<runVars, clean, program>>

NextSpinner == SpinnerStart \/ TaskAssign \/ TaskReturn \/ TaskSend \/ Spin \/ SpinnerReceive

\* the scheduler runs a goroutine that can take a step; a task need not terminate
SpecSpinner ==
    InitSpinner /\ [][NextSpinner]_vars
        /\ WF_vars(SpinnerStart) /\ WF_vars(TaskSend) /\ WF_vars(SpinnerReceive)

(***************************************************************************)
(* Properties                                                               *)
(***************************************************************************)
MergePrefix == "Merge pull request"

FirstLine(msg) == SplitLines(msg)[1]

RECURSIVE Closure(_, _)
Closure(parents, S) ==
    LET nxt == S \cup UNION {SeqRange(parents[c]) : c \in S}
    IN  IF nxt = S THEN S ELSE Closure(parents, nxt)

\* the commits reachable from c, c included
Ancestors(r, c) == Closure(r.parents, {c})

SumCounters(st) ==
    st.Features + st.Fixes + st.Docs + st.Style + st.Refactor
        + st.Test + st.Chore + st.Breaking + st.Unknown

HasNotes == pc \in {"generated", "filtered"}

\* the commits getCommitsBetween hands to the analysis loop of the run
RunRange ==
    getCommitsBetween(repo, resolveReference(repo, fromRef).hash,
                      resolveReference(repo, toRef).hash).commits

\* C1: in the notes returned by GenerateReleaseNotes and in the notes whose
\* statistics calculateStatistics recomputed, the nine category counters sum
\* to Total, and Total is the number of commits of the notes.
C1_CountersSumToTotal ==
    HasNotes =>
        /\ SumCounters(notes.Statistics) = notes.Statistics.Total
        /\ notes.Statistics.Total = Len(notes.Commits)

C1_Witness ==
    /\ pc = "filtered"
    /\ Len(includeTypes) > 0
    /\ Len(notes.Commits) = 2
    /\ notes.Statistics.Breaking = 1
    /\ notes.Statistics.Unknown = 1
    /\ notes.Commits[2].Type = "ci"

\* C2: a record returned by parseConventionalCommit with Breaking = TRUE has
\* Type = Breaking.
C2_BreakingForcesType ==
    pc = "parsed" => (parsed.Breaking => parsed.Type = CommitTypeBreaking)

C2_Witness ==
    /\ pc = "parsed"
    /\ HasPrefix(message, "fix: patch leak")
    /\ ~Contains(ToLower(FirstLine(message)), "breaking change")
    /\ parsed.Breaking
    /\ parsed.Type = CommitTypeBreaking

\* C3: no commit whose first line begins with "Merge pull request" is in the
\* commits of the notes (either variant), and Total counts no such commit.
NonMerge(r) == {c \in 1..Len(r.parents) : ~HasPrefix(FirstLine(r.msg[c]), MergePrefix)}

C3_MergeCommitsExcluded ==
    /\ HasNotes =>
          /\ \A k \in 1..Len(notes.Commits) :
                ~HasPrefix(FirstLine(notes.Commits[k].Message), MergePrefix)
          /\ notes.Statistics.Total <= Cardinality(NonMerge(repo) \cap SeqRange(RunRange))
    /\ pc = "api-generated" =>
          /\ \A k \in 1..Len(apiNotes.Commits) :
                ~HasPrefix(FirstLine(apiNotes.Commits[k].Message), MergePrefix)
          /\ apiNotes.Statistics.Total <= Cardinality(NonMerge(repo))

C3_Witness ==
    /\ pc = "generated"
    /\ Len(RunRange) = 2
    /\ repo.msg[1] = "Merge pull request #12 from owner/branch"
    /\ Len(notes.Commits) = 1
    /\ notes.Statistics.Total = 1

\* C4: every walked commit whose raw first line does not begin with
\* "Merge pull request" is kept in the commits returned by GenerateReleaseNotes.
C4_OnlyMergeFirstLinesDropped ==
    pc = "generated" =>
        \A c \in SeqRange(RunRange) \cap NonMerge(repo) :
            \E k \in 1..Len(notes.Commits) : notes.Commits[k].Hash = CommitHash(c)

\* C5: when from is an ancestor of to, every commit getCommitsBetween returns
\* is reachable from to and not reachable from from.
FromIsAncestor ==
    /\ CommitOf(repo, to) # 0
    /\ CommitOf(repo, from) # 0
    /\ CommitOf(repo, from) \in Ancestors(repo, CommitOf(repo, to))

C5_OnlyRangeCommits ==
    (pc = "walked" /\ FromIsAncestor) =>
        \A c \in SeqRange(walked.commits) :
            /\ c \in Ancestors(repo, CommitOf(repo, to))
            /\ c \notin Ancestors(repo, CommitOf(repo, from))

\* C6: when from is an ancestor of to, every commit reachable from to and not
\* reachable from from is in the sequence getCommitsBetween returns.
C6_AllRangeCommits ==
    (pc = "walked" /\ FromIsAncestor) =>
        \A c \in Ancestors(repo, CommitOf(repo, to)) \ Ancestors(repo, CommitOf(repo, from)) :
            c \in SeqRange(walked.commits)

\* C7: in the commits of the notes an ancestor never comes after one of its
\* descendants.
C7_OldestFirst ==
    HasNotes =>
        \A i \in 1..Len(notes.Commits) : \A j \in (i + 1)..Len(notes.Commits) :
            CommitOf(repo, notes.Commits[j].Hash)
                \notin Ancestors(repo, CommitOf(repo, notes.Commits[i].Hash))

\* C8: when from is not in the ancestry of to, getCommitsBetween returns the
\* whole ancestry of to without an error and surfaces a DisjointHistoryWarning.
C8_DisjointHistoryWarned ==
    (/\ pc = "walked"
     /\ CommitOf(repo, to) # 0
     /\ CommitOf(repo, from) \notin Ancestors(repo, CommitOf(repo, to))) =>
        /\ walked.err = Nil
        /\ SeqRange(walked.commits) = Ancestors(repo, CommitOf(repo, to))
        /\ "DisjointHistoryWarning" \in walked.warnings

\* C9: resolveReference looks up the named reference, then the tag, then the
\* hexadecimal id, stops at the first lookup that succeeds and returns its
\* hash; a name that is a reference and also a tag or an id resolves to the
\* reference.
StoredHash(store, name) ==
    IF store[name].type = "symbolic" THEN store[store[name].target].hash ELSE store[name].hash

NamedRefResolves(store, name) ==
    /\ name \in DOMAIN store
    /\ store[name].type = "symbolic" => store[name].target \in DOMAIN store

IsPrefixOf(p, q) == Len(p) <= Len(q) /\ SubSeq(q, 1, Len(p)) = p

IsHexString(s) == s # "" /\ \A i \in 1..Len(s) : Ch(s, i) \in HexChars

CommitIds(r) == {CommitHash(i) : i \in 1..Len(r.parents)}

MatchesCommit(r, s) == \E h \in CommitIds(r) : HasPrefix(h, ToLower(s))

C11_UnknownIdFails ==
    (/\ pc = "resolved"
     /\ ~NamedRefResolves(repo.refs, ref)
     /\ TagRefName(ref) \notin DOMAIN repo.refs
     /\ Len(ref) >= 7
     /\ IsHexString(ref)
     /\ ~MatchesCommit(repo, ref)) =>
        /\ resolved.err = "could not resolve reference: " \o ref
        /\ resolved.hash = ZeroHash

\* C12: when fromRef or toRef does not resolve, the run fails with an error
\* that contains the offending reference string, no ReleaseNotes is returned
\* and getCommitsBetween is never called (so nothing is classified or counted).
Unresolved(r, s) == resolveReference(r, s).err # Nil

Offending == IF Unresolved(repo, fromRef) THEN fromRef ELSE toRef

C12_UnresolvedAborts ==
    (/\ pc \in {"generated", "filtered", "failed"}
     /\ Unresolved(repo, fromRef) \/ Unresolved(repo, toRef)) =>
        /\ pc = "failed"
        /\ notes = NoNotes
        /\ walked = NotWalked
        /\ Contains(err, "reference '" \o Offending \o "'")
        /\ Contains(err, "could not resolve reference: " \o Offending)

C12_Witness ==
    /\ pc = "failed"
    /\ ~Unresolved(repo, fromRef)
    /\ toRef = "main"
    /\ Contains(err, "failed to resolve to reference 'main'")
    /\ walked = NotWalked

\* C13: a run whose --format is not markdown, json or text ends with the
\* unsupported-format error naming the format, and nothing was done before:
\* no directory created, no clone, no reference resolved, no commit walked,
\* no file written.  (A run that cannot even create its work directory is let
\* through with that error.)
C13_UnsupportedFormatFailsFirst ==
    (/\ pc \in {"start", "failed", "generated", "filtered"}
     /\ outputFormat \notin {"markdown", "json", "text"}) =>
        /\ pc = "failed"
        /\ \/ HasPrefix(err, "unsupported output format: " \o outputFormat)
           \/ HasPrefix(err, "failed to create work directory")
        /\ effects = <<>>
        /\ notes = Idle
        /\ walked = Idle

\* C14: a message whose header line contains "breaking change" in any casing
\* is classified with Breaking = TRUE and Type = Breaking, whether or not the
\* header matches the `type(scope): subject` grammar.
HeaderLine(msg) == TrimSpace(FirstLine(msg))

HasMarker(text) == Contains(ToLower(text), "breaking change")

C14_HeaderMarkerForcesBreaking ==
    (pc = "parsed" /\ HasMarker(HeaderLine(message))) =>
        /\ parsed.Breaking
        /\ parsed.Type = CommitTypeBreaking

\* C15: when the header matches the grammar and a line after the header
\* contains "breaking change" in any casing (so the accumulated body or footer
\* contains it), the result has Breaking = TRUE and Type = Breaking, whatever
\* the header's keyword.
MatchesGrammar(msg) == FindStringSubmatch(HeaderLine(msg)) # NoMatch

LaterLines(msg) == Tail(SplitLines(msg))

MarkerAfterHeader(msg) == \E k \in 1..Len(LaterLines(msg)) : HasMarker(LaterLines(msg)[k])

C15_TextMarkerForcesBreaking ==
    (pc = "parsed" /\ MatchesGrammar(message) /\ MarkerAfterHeader(message)) =>
        /\ parsed.Breaking
        /\ parsed.Type = CommitTypeBreaking
        /\ HasMarker(parsed.Body) \/ HasMarker(parsed.Footer)

C15_Witness ==
    /\ pc = "parsed"
    /\ message = "fix: patch leak\n\nBREAKING CHANGE: clients must update"
    /\ parsed.Type = CommitTypeBreaking
    /\ parsed.Breaking
    /\ parsed.Footer = "BREAKING CHANGE: clients must update"

\* C16: the Type of every classified message is one of the nine categories;
\* a header that matches the grammar with a keyword outside the set gets
\* Type = Unknown.
Categories ==
    {CommitTypeFeature, CommitTypeFix, CommitTypeDocs, CommitTypeStyle, CommitTypeRefactor,
     CommitTypeTest, CommitTypeChore, CommitTypeBreaking, CommitTypeUnknown}

C16_TypeIsACategory ==
    pc = "parsed" =>
        /\ parsed.Type \in Categories
        /\ (/\ MatchesGrammar(message)
            /\ ToLower(FindStringSubmatch(HeaderLine(message))[2]) \notin Categories
            /\ ~parsed.Breaking) => parsed.Type = CommitTypeUnknown

Keyword(h) == SubSeq(h, 1, WordPrefixLen(h))

\* length of `type` or `type(scope)` in a header with these fields
HeadLen(p) == Len(p.Type) + (IF p.Scope = "" THEN 0 ELSE Len(p.Scope) + 2)

\* h reads: keyword, optional "(scope)", ":", n white-space characters, subject
ReadsAs(h, p, n) ==
    /\ ToLower(SubSeq(h, 1, Len(p.Type))) = p.Type
    /\ p.Scope # "" => SubSeq(h, Len(p.Type) + 1, HeadLen(p)) = "(" \o p.Scope \o ")"
    /\ Ch(h, HeadLen(p) + 1) = ":"
    /\ \A i \in (HeadLen(p) + 2)..(HeadLen(p) + 1 + n) : Ch(h, i) \in ReSpaceChars
    /\ SubSeq(h, HeadLen(p) + 2 + n, Len(h)) = p.Subject
    /\ p.Subject # ""
    /\ Ch(p.Subject, 1) \notin ReSpaceChars

C18_RecognizedHeaderFields ==
    /\ (/\ pc = "parsed"
        /\ MatchesGrammar(message)
        /\ ToLower(Keyword(HeaderLine(message))) \in Categories
        /\ ~HasMarker(message)) =>
          /\ parsed.Type = ToLower(Keyword(HeaderLine(message)))
          /\ ~Contains(parsed.Scope, ")")
          /\ \E n \in 0..Len(HeaderLine(message)) : ReadsAs(HeaderLine(message), parsed, n)
          /\ ~parsed.Breaking
    /\ (pc = "parsed" /\ message = "feat(auth): add OAuth support") =>
          parsed = [Type |-> CommitTypeFeature, Scope |-> "auth", Subject |-> "add OAuth support",
                    Body |-> "", Footer |-> "", Breaking |-> FALSE]

C18_Witness ==
    /\ pc = "parsed"
    /\ message = "FIX(core): caps\n\nbody text"
    /\ parsed.Type = CommitTypeFix
    /\ parsed.Scope = "core"
    /\ parsed.Subject = "caps"
    /\ ~parsed.Breaking

\* C19: under a header that matches the grammar, the non-empty lines after
\* the header are split at one boundary: the first non-empty line that
\* contains a colon and directly follows a blank line opens the footer; that
\* line and every later non-empty line are the footer, every earlier
\* non-empty line is the body; without such a line all of them are body and
\* the footer is empty.
IsBlank(line) == TrimSpace(line) = ""

OpensFooter(lines, k) ==
    k > 1 /\ ~IsBlank(lines[k]) /\ Contains(lines[k], ":") /\ IsBlank(lines[k - 1])

\* index of the boundary line, Len(lines) + 1 when there is none
Boundary(lines) ==
    IF \E k \in 2..Len(lines) : OpensFooter(lines, k)
    THEN CHOOSE k \in 2..Len(lines) :
            OpensFooter(lines, k) /\ \A j \in 2..(k - 1) : ~OpensFooter(lines, j)
    ELSE Len(lines) + 1

\* the trimmed non-empty lines lo..hi, one per line of text
RECURSIVE JoinLines(_, _, _)
JoinLines(lines, lo, hi) ==
    IF lo > hi THEN ""
    ELSE IF IsBlank(lines[hi]) THEN JoinLines(lines, lo, hi - 1)
    ELSE IF JoinLines(lines, lo, hi - 1) = "" THEN TrimSpace(lines[hi])
    ELSE JoinLines(lines, lo, hi - 1) \o "\n" \o TrimSpace(lines[hi])

C19_SingleBoundary ==
    (pc = "parsed" /\ MatchesGrammar(message)) =>
        /\ parsed.Body = JoinLines(SplitLines(message), 2, Boundary(SplitLines(message)) - 1)
        /\ parsed.Footer = JoinLines(SplitLines(message), Boundary(SplitLines(message)),
                                     Len(SplitLines(message)))

C19_Witness ==
    /\ pc = "parsed"
    /\ message = "docs: d\n\nbody\nNote: x\n \t\nFixes: #2\n\nlast"
    /\ parsed.Body = "body\nNote: x"
    /\ parsed.Footer = "Fixes: #2\nlast"

\* the keyword as written in a header that matches the grammar, else none
NoKeyword == <<>>

OriginalKeyword(msg) ==
    IF MatchesGrammar(msg) THEN FindStringSubmatch(HeaderLine(msg))[2] ELSE NoKeyword

\* C20 (as stated): Type = Breaking exactly when Breaking = TRUE or the
\* keyword written in the header literally equals "breaking".
C20_BreakingIffFlagOrLiteralKeyword ==
    pc = "parsed" =>
        (parsed.Type = CommitTypeBreaking
            <=> (parsed.Breaking \/ OriginalKeyword(message) = "breaking"))

\* C20 (amended): Type = Breaking exactly when Breaking = TRUE or the keyword
\* written in the header equals "breaking" after lower-casing (Breaking,
\* BREAKING, ...).
C20_BreakingIffFlagOrFoldedKeyword ==
    pc = "parsed" =>
        (parsed.Type = CommitTypeBreaking
            <=> (parsed.Breaking
                 \/ (MatchesGrammar(message) /\ ToLower(OriginalKeyword(message)) = "breaking")))

C20_Witness ==
    /\ pc = "parsed"
    /\ message = "BREAKING: drop v2\n\nbody text"
    /\ parsed.Type = CommitTypeBreaking
    /\ ~parsed.Breaking

\* the eight categories with a counter of their own
Recognized == Categories \ {CommitTypeUnknown}

\* number of commits of a list whose Type is in a set of types
CountTypes(commits, types) == Cardinality({i \in 1..Len(commits) : commits[i].Type \in types})

\* number of commits of the walked range whose header fails the grammar
FailingGrammar == Cardinality({c \in SeqRange(RunRange) : ~MatchesGrammar(repo.msg[c])})

\* C21 (as stated): in a range where k commits fail the header grammar and the
\* others match it, Unknown = k and the other counters share the remaining
\* Len - k commits.
C21_UnknownCountsFailingHeaders ==
    pc = "generated" =>
        /\ notes.Statistics.Unknown = FailingGrammar
        /\ SumCounters(notes.Statistics) - notes.Statistics.Unknown
              = Len(RunRange) - FailingGrammar

\* C21 (amended): every commit that survives the merge filter increments
\* Total and the counter of its final Type, and Unknown when that Type is none
\* of the eight recognized ones (a header that fails the grammar, or a keyword
\* outside the set); Unknown = k only when no commit of the range is dropped
\* as a merge and every matching header has a recognized final Type.
C21_CountersFollowFinalType ==
    pc = "generated" =>
        /\ notes.Statistics.Unknown = Len(notes.Commits) - CountTypes(notes.Commits, Recognized)
        /\ notes.Statistics.Features = CountTypes(notes.Commits, {CommitTypeFeature})
        /\ notes.Statistics.Fixes = CountTypes(notes.Commits, {CommitTypeFix})
        /\ notes.Statistics.Docs = CountTypes(notes.Commits, {CommitTypeDocs})
        /\ notes.Statistics.Style = CountTypes(notes.Commits, {CommitTypeStyle})
        /\ notes.Statistics.Refactor = CountTypes(notes.Commits, {CommitTypeRefactor})
        /\ notes.Statistics.Test = CountTypes(notes.Commits, {CommitTypeTest})
        /\ notes.Statistics.Chore = CountTypes(notes.Commits, {CommitTypeChore})
        /\ notes.Statistics.Breaking = CountTypes(notes.Commits, {CommitTypeBreaking})
        /\ (/\ Len(notes.Commits) = Len(RunRange)
            /\ \A c \in SeqRange(RunRange) :
                  MatchesGrammar(repo.msg[c]) => analyzeCommit(repo, c).Type \in Recognized) =>
              /\ notes.Statistics.Unknown = FailingGrammar
              /\ SumCounters(notes.Statistics) - notes.Statistics.Unknown
                    = Len(RunRange) - FailingGrammar

C21_Witness ==
    /\ pc = "generated"
    /\ Len(RunRange) = 2
    /\ repo.msg[1] = "update readme"
    /\ repo.msg[2] = "ci: update pipeline"
    /\ FailingGrammar = 1
    /\ notes.Statistics.Unknown = 2

\* indices of the commits whose type passes the include and the exclude list
Passing(commits, include, exclude) ==
    {i \in 1..Len(commits) :
        /\ include # <<>> => commits[i].Type \in SeqRange(include)
        /\ commits[i].Type \notin SeqRange(exclude)}

\* the j-th smallest element of a set of indices
Nth(K, j) == CHOOSE i \in K : Cardinality({x \in K : x < i}) = j - 1

\* out is the subsequence of in at the indices K, in the order of in
IsSubsequenceAt(out, in, K) ==
    /\ Len(out) = Cardinality(K)
    /\ \A j \in 1..Len(out) : out[j] = in[Nth(K, j)]

\* C22: when the run applies an include or exclude filter, the document that
\* goes on to the renderer holds the commits of the generated document that
\* pass the filter, in their order, with statistics recomputed from them:
\* Total = their number = the sum of the category counters; the generated
\* commits themselves are not changed (each kept record is the record that
\* was generated) and the other fields of the document stay as they were.
C22_StatisticsRecomputed ==
    [][(pc = "generated" /\ pc' = "filtered"
            /\ (includeTypes # <<>> \/ excludeTypes # <<>>)) =>
          /\ IsSubsequenceAt(notes'.Commits, notes.Commits,
                             Passing(notes.Commits, includeTypes, excludeTypes))
          /\ notes'.Statistics.Total = Len(notes'.Commits)
          /\ SumCounters(notes'.Statistics) = Len(notes'.Commits)
          /\ notes'.Statistics.Unknown
                = Len(notes'.Commits) - CountTypes(notes'.Commits, Recognized)
          /\ notes'.FromHash = notes.FromHash /\ notes'.ToHash = notes.ToHash
          /\ notes'.FromRef = notes.FromRef /\ notes'.ToRef = notes.ToRef]_vars

C22_Witness ==
    /\ pc = "filtered"
    /\ excludeTypes = <<"chore", "docs">>
    /\ Len(RunRange) = 2
    /\ repo.msg[1] = "docs: d"
    /\ repo.msg[2] = "feat(auth): add OAuth support"
    /\ Len(notes.Commits) = 1
    /\ notes.Statistics.Total = 1
    /\ notes.Statistics.Docs = 0

(***************************************************************************)
(* Markdown rendering                                                       *)
(***************************************************************************)
Rendered(format) == pc = "formatted" /\ outputFormat = format

SectionTitles ==
    <<"Breaking Changes", "Features", "Bug Fixes", "Documentation", "Refactoring",
      "Tests", "Chores", "Other Changes">>

SectionCounts(st) ==
    <<st.Breaking, st.Features, st.Fixes, st.Docs, st.Refactor, st.Test, st.Chore, st.Unknown>>

IsHeading(line) == HasPrefix(line, "## ")

\* the section headings a document with these statistics must show, in order
DueHeadings(st) ==
    SelectSeq([k \in 1..Len(SectionTitles) |-> IF SectionCounts(st)[k] > 0 THEN "## " \o SectionTitles[k] ELSE ""],
              LAMBDA h : h # "")

LineOf(lines, text) == CHOOSE k \in 1..Len(lines) : lines[k] = text

\* the lines from the heading `title` up to the next heading
SectionOf(lines, title) ==
    SubSeq(lines, LineOf(lines, title) + 1,
           (CHOOSE e \in LineOf(lines, title) + 1..Len(lines) + 1 :
               /\ e = Len(lines) + 1 \/ IsHeading(lines[e])
               /\ \A j \in LineOf(lines, title) + 1..e - 1 : ~IsHeading(lines[j])) - 1)

SectionEntry(commit) == "- **" \o commit.Subject \o "** (" \o commit.Hash \o ")"

FlatEntry(commit) ==
    "- **" \o commit.Type \o ":** " \o commit.Subject \o " (" \o commit.Hash \o ") - "
        \o commit.Author \o " - " \o SubSeq(commit.Date.text, 1, 10)

HeadingsInOrder(lines, st) ==
    SelectSeq(lines, IsHeading) = <<"## Summary">> \o DueHeadings(st) \o <<"## All Commits">>

SectionsListACommit(lines, n) ==
    \A k \in 1..Len(SectionTitles) :
        SectionCounts(n.Statistics)[k] > 0 =>
            \E c \in 1..Len(n.Commits) :
                /\ n.Commits[c].Type = typeOrder[k]
                /\ SectionEntry(n.Commits[c]) \in SeqRange(SectionOf(lines, "## " \o SectionTitles[k]))

FlatListComplete(lines, n) ==
    SelectSeq(SectionOf(lines, "## All Commits"), LAMBDA l : l # "")
        = [c \in 1..Len(n.Commits) |-> FlatEntry(n.Commits[c])]

\* C23: in markdown output the sections come in the fixed order and only for
\* nonzero counters, every emitted section lists a commit of its category,
\* and the flat list holds every commit of the document in range order
C23_MarkdownSections ==
    Rendered("markdown") =>
        /\ HeadingsInOrder(SplitLines(formatted.text), notes.Statistics)
        /\ SectionsListACommit(SplitLines(formatted.text), notes)
        /\ FlatListComplete(SplitLines(formatted.text), notes)

(***************************************************************************)
(* Text rendering                                                           *)
(***************************************************************************)
GroupTitle(type) == ToUpper(type) \o ":"

TypesOf(commits) == {commits[c].Type : c \in 1..Len(commits)}

\* the group titles that could head a group of this document
GroupTitles(n) == {GroupTitle(t) : t \in TypesOf(n.Commits) \cup SeqRange(typeOrder)}

\* the lines from the group title up to the next group title
GroupOf(lines, titles, title) ==
    SubSeq(lines, LineOf(lines, title) + 1,
           (CHOOSE e \in LineOf(lines, title) + 1..Len(lines) + 1 :
               /\ e = Len(lines) + 1 \/ lines[e] \in titles
               /\ \A j \in LineOf(lines, title) + 1..e - 1 : lines[j] \notin titles) - 1)

TextEntry(commit) ==
    "- " \o commit.Subject \o " (" \o commit.Hash \o ") - " \o commit.Author

\* the groups whose lines hold the entry of the commit
GroupsHolding(lines, n, commit) ==
    {title \in GroupTitles(n) \cap SeqRange(lines) :
        TextEntry(commit) \in SeqRange(GroupOf(lines, GroupTitles(n), title))}

GroupsInOrder(lines, n) ==
    SelectSeq(lines, LAMBDA l : l \in GroupTitles(n))
        = SelectSeq([k \in 1..Len(typeOrder) |-> GroupTitle(typeOrder[k])],
                    LAMBDA title : \E c \in 1..Len(n.Commits) : GroupTitle(n.Commits[c].Type) = title)

RangeOrderInGroups(lines, n) ==
    \A title \in GroupTitles(n) \cap SeqRange(lines) :
        SelectSeq(GroupOf(lines, GroupTitles(n), title), LAMBDA l : HasPrefix(l, "- "))
            = [c \in 1..Len(SelectSeq(n.Commits, LAMBDA commit : GroupTitle(commit.Type) = title)) |->
                  TextEntry(SelectSeq(n.Commits, LAMBDA commit : GroupTitle(commit.Type) = title)[c])]

EveryCommitInOneGroup(lines, n) ==
    \A c \in 1..Len(n.Commits) : Cardinality(GroupsHolding(lines, n, n.Commits[c])) = 1

\* C24: the text rendering lists the groups in the fixed order, keeps range
\* order inside a group, and shows every commit of the document in exactly one group
C24_TextListsEveryCommit ==
    Rendered("text") =>
        /\ GroupsInOrder(SplitLines(formatted.text), notes)
        /\ RangeOrderInGroups(SplitLines(formatted.text), notes)
        /\ EveryCommitInOneGroup(SplitLines(formatted.text), notes)

(***************************************************************************)
(* JSON rendering: the round trip                                           *)
(***************************************************************************)
HasField(obj, key) == \E k \in 1..Len(obj) : obj[k][1] = key

Field(obj, key) == obj[CHOOSE k \in 1..Len(obj) : obj[k][1] = key][2]

FieldIs(obj, key, v) == HasField(obj, key) /\ Field(obj, key) = v

\* the instant an RFC 3339 text without fraction denotes
ParseRFC3339(text) == TimeOf(SubSeq(text, 1, 19), SubSeq(text, 20, Len(text)), 0)

TimeIs(obj, key, t) == HasField(obj, key) /\ ParseRFC3339(Field(obj, key)) = t

StatisticsRoundTrip(o, st) ==
    /\ FieldIs(o, "total", st.Total) /\ FieldIs(o, "features", st.Features)
    /\ FieldIs(o, "fixes", st.Fixes) /\ FieldIs(o, "docs", st.Docs)
    /\ FieldIs(o, "style", st.Style) /\ FieldIs(o, "refactor", st.Refactor)
    /\ FieldIs(o, "test", st.Test) /\ FieldIs(o, "chore", st.Chore)
    /\ FieldIs(o, "breaking", st.Breaking) /\ FieldIs(o, "unknown", st.Unknown)

\* the fields of a commit that the rendering writes
CommitWrittenFields(o, commit) ==
    /\ FieldIs(o, "hash", commit.Hash) /\ FieldIs(o, "author", commit.Author)
    /\ FieldIs(o, "email", commit.Email) /\ TimeIs(o, "date", commit.Date)
    /\ FieldIs(o, "type", commit.Type) /\ FieldIs(o, "scope", commit.Scope)
    /\ FieldIs(o, "subject", commit.Subject) /\ FieldIs(o, "body", commit.Body)
    /\ FieldIs(o, "footer", commit.Footer) /\ FieldIs(o, "breaking", commit.Breaking)

CommitRoundTrip(o, commit) == CommitWrittenFields(o, commit) /\ FieldIs(o, "message", commit.Message)

RoundTrip(u, n) ==
    /\ u.ok
    /\ FieldIs(u.val, "from_ref", n.FromRef) /\ FieldIs(u.val, "to_ref", n.ToRef)
    /\ FieldIs(u.val, "from_hash", n.FromHash) /\ FieldIs(u.val, "to_hash", n.ToHash)
    /\ TimeIs(u.val, "generated_at", n.GeneratedAt)
    /\ HasField(u.val, "statistics") /\ StatisticsRoundTrip(Field(u.val, "statistics"), n.Statistics)
    /\ HasField(u.val, "commits") /\ Len(Field(u.val, "commits")) = Len(n.Commits)
    /\ \A c \in 1..Len(n.Commits) : CommitRoundTrip(Field(u.val, "commits")[c], n.Commits[c])

\* C25: rendering a document as json and decoding the result reproduces every
\* field of the document, also with quotes, backslashes or newlines in the text
C25_JsonRoundTrip == pc = "decoded" => RoundTrip(decoded, notes)

(***************************************************************************)
(* The clean command                                                        *)
(***************************************************************************)
Removals == {k \in 1..Len(effects) : HasPrefix(effects[k], "RemoveAll ")}

Prompted == "Scanln" \in SeqRange(effects)

\* the directory holds what it held when the command started
DirUntouched == Removals = {}

\* the directory was readable and empty when the command started
WasEmpty == clean.dir.readable /\ Len(clean.dir.entries) = 0 /\ effects = <<"Stat", "ReadDir">>

\* C26: clean deletes entries only with --force or the answer "y" or "Y"; with
\* any other answer, or a missing or empty directory, it returns success and
\* leaves the file system unchanged
C26_DeletesOnlyOnYes ==
    pc = "returned" =>
        /\ ~DirUntouched => clean.force \/ clean.line \in {"y", "Y"}
        /\ Prompted /\ clean.line \notin {"y", "Y"} => err = Nil /\ DirUntouched
        /\ ~clean.dir.exists \/ WasEmpty => err = Nil /\ DirUntouched

(***************************************************************************)
(* CloneWithProgress and FetchWithProgress                                  *)
(***************************************************************************)
Returned == threads.main = "returned"

\* C27: CloneWithProgress returns a non-nil error whenever the clone fails,
\* and never returns nil before the clone has completed
C27_CloneErrorReturned ==
    pc = "clone" /\ Returned =>
        /\ shared.outcome = WorkerFailure => shared.ret.err # Nil
        /\ shared.ret.err = Nil => threads.worker = "end"

\* the main goroutine has read fetchError (and perhaps result)
HasRead == threads.main \in {"read result", "returned"} /\ program.phase # "failed"

\* the goroutines will not write fetchError or result any more
WritesOver == threads.worker = "end" /\ threads.progress.at \in {"fail", "post", "complete", "end"}

\* C28: under every interleaving FetchWithProgress returns a non-nil error or
\* the complete content, and reads result and fetchError only after the
\* goroutines have finished writing them
C28_FetchReturnsContentOrError ==
    pc = "fetch" =>
        /\ Returned => shared.ret.err # Nil \/ shared.ret.content = "content"
        /\ HasRead => WritesOver

(***************************************************************************)
(* RunSpinner                                                               *)
(***************************************************************************)
TaskReturned == threads.task \in {"send", "end"}

SpinnerSafe ==
    /\ shared.runs <= 1
    /\ threads.task = "send" => Len(doneCh) < DoneCapacity
    /\ Returned =>
          /\ shared.runs = 1
          /\ threads.task = "end"
          /\ shared.ret = shared.taskErr
          /\ shared.task.captures => shared.captured = "complete"

\* C29: RunSpinner runs the task exactly once, returns only after the task has
\* returned and exactly its error, the task never blocks on its send, the
\* captured variables are complete at the return, and RunSpinner terminates
\* whenever the task terminates
C29_SpinnerWaitsForTask == [](pc = "spinner" => SpinnerSafe) /\ (TaskReturned ~> Returned)

C29_Witness ==
    /\ pc = "spinner" /\ Returned /\ shared.task.captures
    /\ shared.ret = TaskFailure /\ shared.frame > 0

(***************************************************************************)
(* Exit paths of a run with a remote URL                                    *)
(***************************************************************************)
\* the paths an operation of the log creates or removes
applyEffect(fs, e) ==
    CASE e = "MkdirAll workDir" -> fs \cup {"work"}
      [] e = "MkdirAll cloneDir" -> fs \cup {"work/clone"}
      [] e = "CloneWithProgress" -> fs \cup {"work/clone/.git"}
      [] e = "WriteFile workFilePath" -> fs \cup {"work/release-notes"}
      [] e = "WriteFile releaseOutput" -> fs \cup {"notes.md"}
      [] e = "RemoveAll cloneDir" -> {path \in fs : ~HasPrefix(path, "work/clone")}
      [] OTHER -> fs

\* the file system after the first k operations, starting from an empty one
RECURSIVE FileSystem(_, _)
FileSystem(log, k) == IF k = 0 THEN {} ELSE applyEffect(FileSystem(log, k - 1), log[k])

Exited == pc \in {"failed", "returned"}

CloneDirCreated == "MkdirAll cloneDir" \in SeqRange(effects)

CloneDirGone == \A path \in FileSystem(effects, Len(effects)) : ~HasPrefix(path, "work/clone")

====
